---------------------------- MODULE Spec2Model ----------------------------
(***************************************************************************)
(* Copy-trading execution engine of polymarket-copy-trading-bot-rust:      *)
(* the RTDS monitor and its reconnection loop (services/trade_monitor.rs), *)
(* the per-event reconciliation (services/trade_executor.rs), the order    *)
(* sizing (config/copy_strategy.rs) and the buy / sell / merge execution   *)
(* loops (utils/post_order.rs).                                            *)
(*                                                                         *)
(* Numbers.  Every f64 of the program (dollars, tokens, prices, percents,  *)
(* multipliers) is a fixed-point integer with two decimals: the model      *)
(* value is the program value times Scale.  FMul and FDiv are the product  *)
(* and the quotient of two such values.  Raw timestamps are counted in     *)
(* units of TimeUnit (400 000, the largest unit that divides both the      *)
(* 10^12 seconds/milliseconds threshold and the 3 600 000 ms of an hour),  *)
(* so that timestamp * 1000 and both comparisons are exact.                *)
(***************************************************************************)
EXTENDS Integers, Sequences, FiniteSets, TLC

VARIABLES
    cfg,                 \* Env: copy_strategy_config, retry_limit, too_old_timestamp, preview_mode
    tiers_str,           \* the TIERED_MULTIPLIERS text handed to parse_tiered_multipliers
    parsed,              \* what parse_tiered_multipliers made of it
    pc,                  \* position of main, then of the monitor task it spawns; "exited": the process is over
    caller,              \* who invoked post_order: the stream session or a direct call
    reconnect_attempts,  \* start_trade_monitor's counter
    delay,               \* seconds of the sleep in progress (0 when none)
    monitorResult,       \* what start_trade_monitor returned: "running", "err_init", "err_max"
    failsSinceConnected, \* failed connect_rtds calls since connect_async last succeeded
    consecFails,         \* failed connect_rtds calls since the last Ok return
    acked,               \* a subscription acknowledgment was seen on this connection
    refreshAlive,        \* position-refresh tasks spawned and not aborted
    store,               \* the tracked address's stored position document
    snapshot,            \* the position update_positions fetched last (<<>>: none, or none yet)
    frame,               \* the text frame handled last
    outcome,             \* what the handler did with it
    inHandling,          \* process_trade_activity invocations in progress
    activeLoops,         \* execution loops in progress
    myHolding,           \* notional of the operator's position fetched by execute_trade_directly
    userHolding,         \* the tracked trader's position fetched by execute_trade_directly
    call,                \* arguments of the post_order call in progress
    loop,                \* the ExecutionAttempt: kind, target, remaining, filled, balance, retry
    order_calc,          \* the OrderSizeCalculation of the call in progress
    prev_calc,           \* arguments and result of the calculate_order_size call made before
    lastOrder,           \* the order placed by the last loop iteration (<<>> when none)
    result,              \* how the last post_order call ended
    sent,                \* orders handed to the exchange client since the start
    fetch                \* the fetch_data call in progress: attempts made, sleeps taken, outcome

vars == <<cfg, tiers_str, parsed, pc, caller, reconnect_attempts, delay, monitorResult,
          failsSinceConnected, consecFails, acked, refreshAlive, store, snapshot, frame,
          outcome, inHandling, activeLoops, myHolding, userHolding, call, loop,
          order_calc, prev_calc, lastOrder, result, sent, fetch>>

monitorVars == <<reconnect_attempts, delay, monitorResult, failsSinceConnected,
                 consecFails>>
frameVars == <<frame, outcome, acked>>
execVars == <<call, loop, order_calc, lastOrder, result, activeLoops, sent>>

-----------------------------------------------------------------------------
(* Fixed-point arithmetic and options *)

Scale == 100

FMul(a, b) == (a * b) \div Scale
FDiv(a, b) == (a * Scale) \div b

Min(a, b) == IF a <= b THEN a ELSE b
Max(a, b) == IF a >= b THEN a ELSE b

\* Option<T>: <<>> is None, <<v>> is Some(v)
None == <<>>
Some(v) == <<v>>
IsSome(o) == Len(o) = 1
UnwrapOr(o, d) == IF IsSome(o) THEN o[1] ELSE d

-----------------------------------------------------------------------------
(* Program constants *)

MAX_RECONNECT_ATTEMPTS == 10
RECONNECT_DELAY_SECS == 5
DelayCap == 5
MIN_ORDER_SIZE_TOKENS == 100
SafetyBuffer == 99
DefaultAdaptiveThreshold == 50000

\* timestamps: units of TimeUnit
TimeUnit == 400000
MsThreshold == 2500000
HourUnits == 9
SecToMs == 1000

-----------------------------------------------------------------------------
(* config/copy_strategy.rs *)

lerp(a, b, t) ==
    LET clamped_t == Min(Max(t, 0), Scale)
    IN  a + FMul(b - a, clamped_t)

\* faulty variant: one interpolation from max_percent down to min_percent
AdaptivePercentTwoPoint(config, trader_order_size) ==
    lerp(UnwrapOr(config.adaptive_max_percent, config.copy_size),
         UnwrapOr(config.adaptive_min_percent, config.copy_size),
         FDiv(trader_order_size,
              UnwrapOr(config.adaptive_threshold, DefaultAdaptiveThreshold)))

calculate_adaptive_percent(config, trader_order_size) ==
    LET min_percent == UnwrapOr(config.adaptive_min_percent, config.copy_size)
        max_percent == UnwrapOr(config.adaptive_max_percent, config.copy_size)
        threshold   == UnwrapOr(config.adaptive_threshold, DefaultAdaptiveThreshold)
    IN  IF trader_order_size >= threshold
        THEN lerp(config.copy_size, min_percent,
                  Min(FDiv(trader_order_size, threshold) - Scale, Scale))
        ELSE lerp(max_percent, config.copy_size, FDiv(trader_order_size, threshold))

\* validate_copy_strategy_config(config).is_empty()
validate_copy_strategy_config(config) ==
    /\ config.copy_size > 0
    /\ ~(config.strategy = "PERCENTAGE" /\ config.copy_size > 100 * Scale)
    /\ config.max_order_size_usd > 0
    /\ config.min_order_size_usd > 0
    /\ config.min_order_size_usd <= config.max_order_size_usd
    /\ config.strategy = "ADAPTIVE" =>
          /\ IsSome(config.adaptive_min_percent) /\ IsSome(config.adaptive_max_percent)
          /\ config.adaptive_min_percent[1] <= config.adaptive_max_percent[1]

\* faulty variant: the upper end of a tier belongs to it
TierMatchesInclusive(tier, n) ==
    n >= tier.min /\ (~IsSome(tier.max) \/ n <= tier.max[1])

\* trader_order_size >= tier.min && (tier.max.is_none() || trader_order_size < max)
TierMatches(tier, n) ==
    n >= tier.min /\ (~IsSome(tier.max) \/ n < tier.max[1])

get_trade_multiplier(config, trader_order_size) ==
    LET tiers == UnwrapOr(config.tiered_multipliers, <<>>)
        hits  == {i \in 1..Len(tiers) : TierMatches(tiers[i], trader_order_size)}
    IN  IF Len(tiers) > 0
        THEN IF hits # {}
             THEN tiers[CHOOSE i \in hits : \A j \in hits : i <= j].multiplier
             ELSE tiers[Len(tiers)].multiplier
        ELSE UnwrapOr(config.trade_multiplier, Scale)

\* faulty variant: the copy size is taken as a fraction, not as a percentage
PercentOfAsFraction(amount, percent) == (amount * percent) \div Scale

\* x per cent of amount: amount * (percent / 100.0)
PercentOf(amount, percent) == (amount * percent) \div (100 * Scale)

BaseAmount(config, trader_order_size) ==
    CASE config.strategy = "PERCENTAGE" -> PercentOf(trader_order_size, config.copy_size)
      [] config.strategy = "FIXED" -> config.copy_size
      [] config.strategy = "ADAPTIVE" ->
            PercentOf(trader_order_size,
                      calculate_adaptive_percent(config, trader_order_size))

\* faulty variant: the maximum order size is not applied
AfterMaxCapOff(config, amount) == amount

\* clamp 1: the maximum order size
AfterMaxCap(config, amount) ==
    IF amount > config.max_order_size_usd THEN config.max_order_size_usd ELSE amount

\* clamp 2: the position limit
PositionCapApplies(config, amount, current_position_size) ==
    /\ IsSome(config.max_position_size_usd)
    /\ current_position_size + amount > config.max_position_size_usd[1]

AfterPositionCap(config, amount, current_position_size) ==
    IF PositionCapApplies(config, amount, current_position_size)
    THEN LET allowed_amount ==
                 Max(config.max_position_size_usd[1] - current_position_size, 0)
         IN  IF allowed_amount < config.min_order_size_usd THEN 0 ELSE allowed_amount
    ELSE amount

\* faulty variant: the whole balance is affordable, without the safety buffer
AfterBalanceWhole(amount, available_balance) ==
    IF amount > available_balance THEN available_balance ELSE amount

\* clamp 3: 99% of the available balance
AfterBalance(amount, available_balance) ==
    LET max_affordable == FMul(available_balance, SafetyBuffer)
    IN  IF amount > max_affordable THEN max_affordable ELSE amount

\* faulty variant: an amount below the minimum is dropped
AfterMinimumDropped(config, amount) ==
    IF amount < config.min_order_size_usd THEN 0 ELSE amount

\* clamp 4: the minimum order size
AfterMinimum(config, amount) ==
    IF amount < config.min_order_size_usd THEN config.min_order_size_usd ELSE amount

calculate_order_size(config, trader_order_size, available_balance, current_position_size) ==
    LET base_amount == BaseAmount(config, trader_order_size)
        multiplier  == get_trade_multiplier(config, trader_order_size)
        a0 == FMul(base_amount, multiplier)
        a1 == AfterMaxCap(config, a0)
        a2 == AfterPositionCap(config, a1, current_position_size)
        a3 == AfterBalance(a2, available_balance)
        a4 == AfterMinimum(config, a3)
    IN  [ trader_order_size  |-> trader_order_size,
          base_amount        |-> base_amount,
          final_amount       |-> a4,
          strategy           |-> config.strategy,
          capped_by_max      |-> a1 # a0,
          reduced_by_balance |-> a3 # a2,
          below_minimum      |-> a4 # a3,
          reasoning          |->
              <<config.strategy>>
              \o (IF multiplier # Scale THEN <<"multiplier">> ELSE <<>>)
              \o (IF a1 # a0 THEN <<"capped_at_max">> ELSE <<>>)
              \o (IF PositionCapApplies(config, a1, current_position_size)
                  THEN IF a2 = 0 THEN <<"position_limit_reached">>
                                 ELSE <<"reduced_to_fit_position_limit">>
                  ELSE <<>>)
              \o (IF a3 # a2 THEN <<"reduced_to_fit_balance">> ELSE <<>>)
              \o (IF a4 # a3 THEN <<"below_minimum">> ELSE <<>>) ]

-----------------------------------------------------------------------------
(* config/copy_strategy.rs: parse_tiered_multipliers *)

\* a text is a sequence of tokens: a decimal number, or one of - + : ,
Num(v) == [t |-> "num", v |-> v]
Sym(c) == [t |-> c, v |-> 0]

\* str::split
RECURSIVE Split(_, _)
Split(text, sep) ==
    LET at == {i \in 1..Len(text) : text[i].t = sep}
    IN  IF at = {} THEN <<text>>
        ELSE LET i == CHOOSE k \in at : \A j \in at : k <= j
             IN  <<SubSeq(text, 1, i - 1)>> \o Split(SubSeq(text, i + 1, Len(text)), sep)

\* str::parse::<f64>, the value in hundredths
ParseF64(text) ==
    IF Len(text) = 1 /\ text[1].t = "num" THEN Some(text[1].v * Scale)
    ELSE IF Len(text) = 2 /\ text[1].t = "-" /\ text[2].t = "num"
         THEN Some(0 - text[2].v * Scale)
    ELSE None

MultiplierTier(min, max, multiplier) == [min |-> min, max |-> max, multiplier |-> multiplier]

\* one turn of the loop over tier_defs: <<>> when it bails
ParseTier(tier_def) ==
    LET parts == Split(tier_def, ":")
    IN  IF Len(parts) # 2 THEN None
        ELSE
        LET range == parts[1]
            multiplier == ParseF64(parts[2])
            dashes == {i \in 1..Len(range) : range[i].t = "-"}
        IN  IF ~IsSome(multiplier) THEN None
            ELSE IF multiplier[1] < 0 THEN None
            ELSE IF Len(range) > 0 /\ range[Len(range)].t = "+"
            THEN LET min == ParseF64(SubSeq(range, 1, Len(range) - 1))
                 IN  IF ~IsSome(min) THEN None
                     ELSE IF min[1] < 0 THEN None
                     ELSE Some(MultiplierTier(min[1], None, multiplier[1]))
            ELSE IF dashes # {}
            THEN LET dash_pos == CHOOSE k \in dashes : \A j \in dashes : k <= j
                     min == ParseF64(SubSeq(range, 1, dash_pos - 1))
                     max == ParseF64(SubSeq(range, dash_pos + 1, Len(range)))
                 IN  IF ~IsSome(min) \/ ~IsSome(max) THEN None
                     ELSE IF min[1] < 0 THEN None
                     ELSE IF max[1] <= min[1] THEN None
                     ELSE Some(MultiplierTier(min[1], max, multiplier[1]))
            ELSE None

\* tiers.sort_by(min): a stable sort
RECURSIVE SortByMin(_)
SortByMin(tiers) ==
    IF Len(tiers) <= 1 THEN tiers
    ELSE LET sorted == SortByMin(SubSeq(tiers, 1, Len(tiers) - 1))
             last == tiers[Len(tiers)]
             before == SelectSeq(sorted, LAMBDA t : t.min <= last.min)
             after == SelectSeq(sorted, LAMBDA t : t.min > last.min)
         IN  before \o <<last>> \o after

\* faulty variant: a tier is compared with the upper end of the next
TiersOverlapByMax(current, next) ==
    IsSome(next.max) /\ current.max[1] > next.max[1]

\* current_max > next.min
TiersOverlap(current, next) == current.max[1] > next.min

NoParse == [kind |-> "none", tiers |-> <<>>]

\* "ok" with the tiers, "err", or "panic" (0..tiers.len() - 1 on an empty vector)
parse_tiered_multipliers(text) ==
    IF text = <<>> THEN [kind |-> "ok", tiers |-> <<>>]
    ELSE
    LET tier_defs == SelectSeq(Split(text, ","), LAMBDA d : d # <<>>)
        tiers == [i \in 1..Len(tier_defs) |-> ParseTier(tier_defs[i])]
    IN  IF \E i \in 1..Len(tiers) : ~IsSome(tiers[i]) THEN [kind |-> "err", tiers |-> <<>>]
        ELSE IF Len(tiers) = 0 THEN [kind |-> "panic", tiers |-> <<>>]
        ELSE
        LET sorted == SortByMin([i \in 1..Len(tiers) |-> tiers[i][1]])
        IN  IF \E i \in 1..(Len(sorted) - 1) :
                  \/ ~IsSome(sorted[i].max)
                  \/ TiersOverlap(sorted[i], sorted[i + 1])
            THEN [kind |-> "err", tiers |-> <<>>]
            ELSE [kind |-> "ok", tiers |-> sorted]

-----------------------------------------------------------------------------
(* config/env.rs: parse_copy_strategy *)

\* the defaults of parse_copy_strategy: "10.0", "10.0", "100.0", "0.01", "500.0"
DefaultCopyPercentage == 1000
DefaultCopySize == 1000
DefaultMaxOrderSizeUsd == 10000
DefaultMinOrderSizeUsd == 1
DefaultAdaptiveThresholdUsd == 50000

\* the variables of the process environment parse_copy_strategy reads, each
\* unset (<<>>) or set; the numbers are those their texts parse to
NoVars ==
    [ COPY_PERCENTAGE |-> None, COPY_STRATEGY |-> None, COPY_SIZE |-> None,
      TRADE_MULTIPLIER |-> None, TIERED_MULTIPLIERS |-> None,
      MAX_ORDER_SIZE_USD |-> None, MIN_ORDER_SIZE_USD |-> None,
      MAX_POSITION_SIZE_USD |-> None, MAX_DAILY_VOLUME_USD |-> None,
      ADAPTIVE_MIN_PERCENT |-> None, ADAPTIVE_MAX_PERCENT |-> None,
      ADAPTIVE_THRESHOLD_USD |-> None ]

\* CopyStrategyConfig::default() with the fields both paths set
ConfigFromVars(e, strategy, copy_size) ==
    [ strategy |-> strategy, copy_size |-> copy_size,
      adaptive_min_percent |-> None, adaptive_max_percent |-> None,
      adaptive_threshold |-> None, tiered_multipliers |-> None,
      trade_multiplier |-> None,
      max_order_size_usd |-> UnwrapOr(e.MAX_ORDER_SIZE_USD, DefaultMaxOrderSizeUsd),
      min_order_size_usd |-> UnwrapOr(e.MIN_ORDER_SIZE_USD, DefaultMinOrderSizeUsd),
      max_position_size_usd |-> e.MAX_POSITION_SIZE_USD,
      max_daily_volume_usd |-> e.MAX_DAILY_VOLUME_USD ]

\* the tiers of TIERED_MULTIPLIERS when it is set, else the single multiplier
\* when it is not 1.0
WithMultipliers(e, config, single) ==
    IF IsSome(e.TIERED_MULTIPLIERS)
    THEN LET p == parse_tiered_multipliers(e.TIERED_MULTIPLIERS[1])
         IN  [kind |-> p.kind,
              config |-> [config EXCEPT !.tiered_multipliers = Some(p.tiers)]]
    ELSE [kind |-> "ok",
          config |-> IF IsSome(single) /\ single[1] # Scale
                     THEN [config EXCEPT !.trade_multiplier = single]
                     ELSE config]

\* let effective_percentage = copy_percentage * trade_multiplier
EffectivePercentage(copy_percentage, trade_multiplier) ==
    FMul(copy_percentage, trade_multiplier)

\* "PERCENTAGE" / "FIXED" / "ADAPTIVE" of the upper-cased text, anything else PERCENTAGE
StrategyOf(strategy_str) ==
    IF strategy_str \in {"FIXED", "ADAPTIVE"} THEN strategy_str ELSE "PERCENTAGE"

parse_copy_strategy(e) ==
    LET has_legacy_config == IsSome(e.COPY_PERCENTAGE) /\ ~IsSome(e.COPY_STRATEGY)
    IN  IF has_legacy_config
        THEN LET copy_percentage == UnwrapOr(e.COPY_PERCENTAGE, DefaultCopyPercentage)
                 trade_multiplier == UnwrapOr(e.TRADE_MULTIPLIER, Scale)
                 config == ConfigFromVars(e, "PERCENTAGE",
                               EffectivePercentage(copy_percentage, trade_multiplier))
             IN  WithMultipliers(e, config, Some(trade_multiplier))
        ELSE LET strategy == StrategyOf(UnwrapOr(e.COPY_STRATEGY, "PERCENTAGE"))
                 base == ConfigFromVars(e, strategy, UnwrapOr(e.COPY_SIZE, DefaultCopySize))
                 config ==
                    IF strategy = "ADAPTIVE"
                    THEN [base EXCEPT
                            !.adaptive_min_percent =
                                Some(UnwrapOr(e.ADAPTIVE_MIN_PERCENT, base.copy_size)),
                            !.adaptive_max_percent =
                                Some(UnwrapOr(e.ADAPTIVE_MAX_PERCENT, base.copy_size)),
                            !.adaptive_threshold =
                                Some(UnwrapOr(e.ADAPTIVE_THRESHOLD_USD,
                                              DefaultAdaptiveThresholdUsd))]
                    ELSE base
             IN  WithMultipliers(e, config, e.TRADE_MULTIPLIER)

\* process environments: the legacy ones (COPY_PERCENTAGE set, COPY_STRATEGY
\* unset, no tiers), with bounds on the order size, and one of the new kind
LegacyVars ==
    { [NoVars EXCEPT !.COPY_PERCENTAGE = Some(p), !.TRADE_MULTIPLIER = m,
                     !.MIN_ORDER_SIZE_USD = Some(100)] :
        p \in {500, 1000}, m \in {None, Some(100), Some(200), Some(50)} }

StrategyVars ==
    { [NoVars EXCEPT !.COPY_STRATEGY = Some("PERCENTAGE"), !.COPY_SIZE = Some(1000),
                     !.TRADE_MULTIPLIER = Some(200), !.MIN_ORDER_SIZE_USD = Some(100)] }

\* the configurations load_env builds from them
LoadedStrategies ==
    { parse_copy_strategy(e).config : e \in LegacyVars \cup StrategyVars }

-----------------------------------------------------------------------------
(* utils/post_order.rs: the order book *)

\* a level whose price or size does not parse is dropped by filter_map
WellFormed(levels) == SelectSeq(levels, LAMBDA l : l.ok)

\* faulty variant: the first well-formed level is taken as the best bid
BestBidFirstLevel(levels) ==
    IF Len(WellFormed(levels)) = 0 THEN None ELSE Some(WellFormed(levels)[1])

\* max_by: the last of the levels with the greatest price
BestBid(levels) ==
    LET wf == WellFormed(levels)
        best == {i \in 1..Len(wf) : \A j \in 1..Len(wf) : wf[j].price <= wf[i].price}
    IN  IF Len(wf) = 0 THEN None
        ELSE Some(wf[CHOOSE i \in best : \A j \in best : j <= i])

\* min_by: the first of the levels with the least price
BestAsk(levels) ==
    LET wf == WellFormed(levels)
        best == {i \in 1..Len(wf) : \A j \in 1..Len(wf) : wf[i].price <= wf[j].price}
    IN  IF Len(wf) = 0 THEN None
        ELSE Some(wf[CHOOSE i \in best : \A j \in best : i <= j])

-----------------------------------------------------------------------------
(* utils/post_order.rs: the execution loops *)

\* the orders of a loop are counted up to MaxOrders
MaxOrders == 3

NoLoop == [kind |-> "none", target |-> 0, remaining |-> 0, filled |-> 0,
           available_balance |-> 0, retry |-> 0, orders |-> 0, stopped |-> ""]

NewLoop(kind, target, balance) ==
    [kind |-> kind, target |-> target, remaining |-> target, filled |-> 0,
     available_balance |-> balance, retry |-> 0, orders |-> 0, stopped |-> ""]

\* while remaining > 0.0 && retry < env.retry_limit
LoopCond(l, retry_limit) == l.remaining > 0 /\ l.retry < retry_limit

\* an order, and the levels of the snapshot it was computed from
Order(side, price, tokens, usd, levels) ==
    [side |-> side, price |-> price, tokens |-> tokens, usd |-> usd, levels |-> levels]

\* faulty variant: every way out of the loop is an error
StopAsError(how, why, l) ==
    [next |-> "err", order |-> None, sent |-> 0, loop |-> [l EXCEPT !.stopped = why]]

\* the iteration leaves the loop: by an error, or by a break and the message logged
Stop(how, why, l) ==
    [next |-> how, order |-> None, sent |-> 0, loop |-> [l EXCEPT !.stopped = why]]

\* faulty variant: the order is also posted to the exchange
FillPosted(l, order, amount) ==
    [next |-> "continue", order |-> Some(order), sent |-> 1,
     loop |-> [l EXCEPT !.remaining = @ - amount, !.filled = @ + amount,
                        !.retry = 0, !.orders = Min(@ + 1, MaxOrders)]]

\* a simulated fill: the order is printed, nothing goes to the exchange client;
\* remaining -= amount; retry = 0; continue
Fill(l, order, amount) ==
    [next |-> "continue", order |-> Some(order), sent |-> 0,
     loop |-> [l EXCEPT !.remaining = @ - amount, !.filled = @ + amount,
                        !.retry = 0, !.orders = Min(@ + 1, MaxOrders)]]

\* faulty variant: the whole best level is taken, whatever remains to be sold
SellAmountWholeLevel(remaining, best_size) == best_size

\* the amount of one sell or merge order
SellAmount(remaining, best_size) == Min(remaining, best_size)

\* the amount of one buy order, in dollars
BuyOrderSize(config, remaining, best) ==
    LET max_order_size_from_orderbook == FMul(best.size, best.price)
        max_order_size ==
            Min(Min(remaining, max_order_size_from_orderbook), config.max_order_size_usd)
    IN  Max(max_order_size, config.min_order_size_usd)

\* one iteration of execute_merge_strategy's loop, on the book just fetched
MergeBody(l, ob) ==
    IF ~ob.fetched \/ ~IsSome(ob.levels) THEN Stop("err", "error", l)
    ELSE LET bids == ob.levels[1]
             best_bid == BestBid(bids)
         IN  IF Len(bids) = 0 THEN Stop("break", "no_bids", l)
             ELSE IF ~IsSome(best_bid) THEN Stop("break", "no_valid_bids", l)
             ELSE LET sell_amount == SellAmount(l.remaining, best_bid[1].size)
                  IN  IF sell_amount < MIN_ORDER_SIZE_TOKENS
                      THEN Stop("break", "below_minimum", l)
                      ELSE Fill(l, Order("SELL", best_bid[1].price, sell_amount,
                                         FMul(sell_amount, best_bid[1].price), bids),
                                sell_amount)

\* one iteration of execute_sell_strategy's loop
SellBody(l, ob) ==
    IF ~ob.fetched \/ ~IsSome(ob.levels) THEN Stop("err", "error", l)
    ELSE LET bids == ob.levels[1]
             best_bid == BestBid(bids)
         IN  IF Len(bids) = 0 THEN Stop("break", "no_bids", l)
             ELSE IF ~IsSome(best_bid) THEN Stop("break", "no_valid_bids", l)
             ELSE IF l.remaining < MIN_ORDER_SIZE_TOKENS
                  THEN Stop("break", "remaining_below_minimum", l)
             ELSE LET sell_amount == SellAmount(l.remaining, best_bid[1].size)
                  IN  IF sell_amount < MIN_ORDER_SIZE_TOKENS
                      THEN Stop("break", "below_minimum", l)
                      ELSE Fill(l, Order("SELL", best_bid[1].price, sell_amount,
                                         FMul(sell_amount, best_bid[1].price), bids),
                                sell_amount)

\* faulty variant: the order is placed whatever balance is left
BuyBodyUnchecked(config, l, ob) ==
    IF ~ob.fetched \/ ~IsSome(ob.levels) THEN Stop("err", "error", l)
    ELSE LET asks == ob.levels[1]
             best_ask == BestAsk(asks)
         IN  IF Len(asks) = 0 THEN Stop("break", "no_asks", l)
             ELSE IF ~IsSome(best_ask) THEN Stop("break", "no_valid_asks", l)
             ELSE IF l.remaining < config.min_order_size_usd
                  THEN Stop("break", "remaining_below_minimum", l)
             ELSE LET order_size == BuyOrderSize(config, l.remaining, best_ask[1])
                      tokens_bought == FDiv(order_size, best_ask[1].price)
                  IN  IF order_size < config.min_order_size_usd
                      THEN Stop("break", "below_minimum", l)
                      ELSE LET f == Fill(l, Order("BUY", best_ask[1].price,
                                                  tokens_bought, order_size, asks),
                                         order_size)
                           IN  [f EXCEPT !.loop.available_balance = @ - order_size]

\* one iteration of execute_buy_strategy's loop
BuyBody(config, l, ob) ==
    IF ~ob.fetched \/ ~IsSome(ob.levels) THEN Stop("err", "error", l)
    ELSE LET asks == ob.levels[1]
             best_ask == BestAsk(asks)
         IN  IF Len(asks) = 0 THEN Stop("break", "no_asks", l)
             ELSE IF ~IsSome(best_ask) THEN Stop("break", "no_valid_asks", l)
             ELSE IF l.remaining < config.min_order_size_usd
                  THEN Stop("break", "remaining_below_minimum", l)
             ELSE LET order_size == BuyOrderSize(config, l.remaining, best_ask[1])
                      tokens_bought == FDiv(order_size, best_ask[1].price)
                  IN  IF order_size < config.min_order_size_usd
                      THEN Stop("break", "below_minimum", l)
                      ELSE IF l.available_balance < order_size
                      THEN Stop("break", "insufficient_balance", l)
                      ELSE LET f == Fill(l, Order("BUY", best_ask[1].price,
                                                  tokens_bought, order_size, asks),
                                         order_size)
                           IN  [f EXCEPT !.loop.available_balance = @ - order_size]

\* my_position.map(|p| p.size * p.avg_price).unwrap_or(0.0)
CurrentPositionValue(my_position) ==
    IF IsSome(my_position) THEN FMul(my_position[1].size, my_position[1].avg_price) ELSE 0

\* what each strategy does before its loop: NoLoop when it returns at once
MergeEntry(c) ==
    IF ~IsSome(c.my_position) \/ c.trade.asset = "" THEN NoLoop
    ELSE IF c.my_position[1].size < MIN_ORDER_SIZE_TOKENS THEN NoLoop
    ELSE NewLoop("merge", c.my_position[1].size, 0)

BuyEntry(config, c) ==
    LET calc == calculate_order_size(config, c.trade.usdc_size, c.my_balance,
                                     CurrentPositionValue(c.my_position))
    IN  IF calc.final_amount = 0 THEN NoLoop
        ELSE NewLoop("buy", calc.final_amount, c.my_balance)

\* the sell size before the minimum check and the cap; <<>> when 0/0 makes it NaN
SellTarget(config, c) ==
    LET my == c.my_position[1]
    IN  IF ~IsSome(c.user_position) THEN Some(my.size)
        ELSE LET user_pos == c.user_position[1]
                 trader_position_before == user_pos.size + c.trade.size
             IN  IF trader_position_before = 0 THEN None
                 ELSE LET trader_sell_percent ==
                              FDiv(c.trade.size, trader_position_before)
                          base_sell_size == FMul(my.size, trader_sell_percent)
                          multiplier == get_trade_multiplier(config, c.trade.usdc_size)
                      IN  Some(FMul(base_sell_size, multiplier))

\* faulty variant: the one-token minimum of the sell target is not checked
SellEntryNoMinimum(config, c) ==
    IF ~IsSome(c.my_position) THEN NoLoop
    ELSE LET t == SellTarget(config, c)
         IN  IF ~IsSome(t) THEN NoLoop
             ELSE NewLoop("sell", Min(t[1], c.my_position[1].size), 0)

SellEntry(config, c) ==
    IF ~IsSome(c.my_position) THEN NoLoop
    ELSE LET t == SellTarget(config, c)
         IN  IF ~IsSome(t) \/ UnwrapOr(t, 0) < MIN_ORDER_SIZE_TOKENS THEN NoLoop
             ELSE NewLoop("sell", Min(t[1], c.my_position[1].size), 0)

\* the own-account action a post_order call takes: the strategy of its
\* condition, a sell without the trader's position being the full liquidation
ChosenAction(c) ==
    CASE c.condition = "buy"   -> "BUY"
      [] c.condition = "merge" -> "MERGE"
      [] c.condition = "sell"  ->
            IF IsSome(c.user_position) THEN "SELL-PROPORTIONAL" ELSE "MERGE"
      [] OTHER -> "NONE"

\* post_order, up to the first order-book fetch
PostOrderEntry(config, c) ==
    CASE c.condition = "merge" -> MergeEntry(c)
      [] c.condition = "buy"   -> BuyEntry(config, c)
      [] c.condition = "sell"  -> SellEntry(config, c)
      [] OTHER -> NoLoop

-----------------------------------------------------------------------------
(* services/trade_monitor.rs: frames, addresses, staleness *)

\* str::to_lowercase on the characters an address is written with
LowerChar(ch) ==
    CASE ch = "A" -> "a" [] ch = "B" -> "b" [] ch = "C" -> "c" [] ch = "D" -> "d"
      [] ch = "X" -> "x" [] OTHER -> ch
to_lowercase(str) == [i \in DOMAIN str |-> LowerChar(str[i])]

\* faulty variant: the proxy wallet is compared as it was received
IsTrackedCaseSensitive(env, proxy_wallet) ==
    \E a \in env.user_addresses : to_lowercase(a) = UnwrapOr(proxy_wallet, <<>>)

\* env.user_addresses.iter().any(|a| a.to_lowercase() == proxy)
IsTracked(env, proxy_wallet) ==
    LET proxy == to_lowercase(UnwrapOr(proxy_wallet, <<>>))
    IN  \E a \in env.user_addresses : to_lowercase(a) = proxy

\* action == "subscribed" || status == "subscribed"
IsSubscriptionAck(f) == f.action = "subscribed" \/ f.status = "subscribed"

\* topic == "activity" && type == "trades", payload present and deserializable
IsTradeMessage(f) ==
    f.topic = "activity" /\ f.type = "trades" /\ f.payload = "ok"

\* the clock read by process_trade_activity, in TimeUnit
Now == 4475000

\* the timestamp in milliseconds as process_trade_activity takes it
ActivityTimestamp(timestamp) ==
    IF timestamp > MsThreshold THEN timestamp ELSE timestamp * SecToMs

\* faulty variant: the age is taken in days, not hours
IsTooOldInDays(env, timestamp) ==
    Now - ActivityTimestamp(timestamp) > env.too_old_timestamp * HourUnits * 24

\* hours_ago > env.too_old_timestamp
IsTooOld(env, timestamp) ==
    Now - ActivityTimestamp(timestamp) > env.too_old_timestamp * HourUnits

\* RtdsActivity -> UserActivity
ToUserActivity(f) ==
    [ proxy_wallet |-> UnwrapOr(f.wallet, <<>>),
      timestamp    |-> UnwrapOr(f.timestamp, 0),
      side         |-> f.side,
      size         |-> f.size,
      price        |-> f.price,
      usdc_size    |-> FMul(f.size, f.price),
      asset        |-> f.asset ]

\* RECONNECT_DELAY_SECS * reconnect_attempts.min(5)
ReconnectDelay(attempts) == RECONNECT_DELAY_SECS * Min(attempts, DelayCap)

\* faulty variant: the limit is tested with > instead of >=
MaxAttemptsReachedLate(attempts) == attempts > MAX_RECONNECT_ATTEMPTS

\* reconnect_attempts >= MAX_RECONNECT_ATTEMPTS
MaxAttemptsReached(attempts) == attempts >= MAX_RECONNECT_ATTEMPTS

\* faulty variant: the handling is spawned, not awaited, so frames are read during it
AwaitingFrameSpawned == pc \in {"read", "fetch_positions", "fetch_balance", "exec"}

\* the session reads its next frame only once the handling of the last has returned
AwaitingFrame == pc = "read"

\* collection.update_one(filter, {$set: doc}, None): no upsert
UpdateOne(stored, doc) == IF IsSome(stored) THEN Some(doc) ELSE stored

-----------------------------------------------------------------------------
(* Bounds and input domains *)

MaxRefreshTasks == 2

Tracked == <<"0", "x", "a", "b">>

Strategy(min_usd, max_usd, max_position) ==
    [ strategy |-> "PERCENTAGE", copy_size |-> 1000,
      adaptive_min_percent |-> None, adaptive_max_percent |-> None,
      adaptive_threshold |-> None, tiered_multipliers |-> None,
      trade_multiplier |-> None,
      max_order_size_usd |-> max_usd, min_order_size_usd |-> min_usd,
      max_position_size_usd |-> max_position, max_daily_volume_usd |-> None ]

EnvOf(strategy) ==
    [ user_addresses |-> {Tracked}, too_old_timestamp |-> 24, retry_limit |-> 3,
      preview_mode |-> TRUE, copy_strategy_config |-> strategy ]

\* load_env's defaults (min $0.01, max $100, no position cap), and a capped setup
MainEnvs ==
    { EnvOf(Strategy(1, 10000, None)), EnvOf(Strategy(100, 10000, Some(2000))),
      [EnvOf(Strategy(1, 10000, None)) EXCEPT !.preview_mode = FALSE] }

Frame(action, status, topic, type, payload, wallet, timestamp, unit, side) ==
    [ parse |-> TRUE, action |-> action, status |-> status, topic |-> topic,
      type |-> type, payload |-> payload, wallet |-> wallet,
      timestamp |-> timestamp, unit |-> unit, side |-> side,
      size |-> 10000, price |-> 50, asset |-> "tok" ]

TradeFrame(wallet, timestamp, unit, side) ==
    Frame("", "", "activity", "trades", "ok", wallet, timestamp, unit, side)

NoFrame == [TradeFrame(None, None, "ms", "") EXCEPT !.parse = FALSE, !.payload = "absent"]

Frames ==
    { NoFrame,
      Frame("subscribed", "", "", "", "absent", None, None, "ms", ""),
      Frame("", "subscribed", "", "", "absent", None, None, "ms", ""),
      Frame("subscribed", "", "activity", "trades", "ok", Some(Tracked), Some(Now), "ms", "BUY"),
      Frame("", "", "comments", "trades", "ok", Some(Tracked), Some(Now), "ms", "BUY"),
      Frame("", "", "activity", "orders", "ok", Some(Tracked), Some(Now), "ms", "BUY"),
      Frame("", "", "activity", "trades", "absent", None, None, "ms", ""),
      Frame("", "", "activity", "trades", "undecodable", None, None, "ms", ""),
      TradeFrame(None, Some(Now), "ms", "BUY"),
      TradeFrame(Some(<<"0", "x", "c", "d">>), Some(Now), "ms", "BUY"),
      TradeFrame(Some(Tracked), Some(Now), "ms", "BUY"),
      TradeFrame(Some(<<"0", "x", "A", "b">>), Some(Now), "ms", "SELL"),
      TradeFrame(Some(<<"0", "X", "A", "B">>), Some(Now), "ms", "BUY"),
      TradeFrame(Some(Tracked), Some(Now - 24 * HourUnits), "ms", "SELL"),
      TradeFrame(Some(Tracked), Some(Now - 24 * HourUnits - 1), "ms", "BUY"),
      TradeFrame(Some(Tracked), Some(Now \div SecToMs), "s", "BUY"),
      TradeFrame(Some(Tracked), Some(Now \div SecToMs - 1), "s", "BUY"),
      TradeFrame(Some(Tracked), None, "ms", "BUY"),
      TradeFrame(Some(Tracked), Some(2000000), "ms", "BUY") }

Position(size, avg_price) == [size |-> size, avg_price |-> avg_price]

Level(price, size) == [price |-> price, size |-> size, ok |-> TRUE]
Book(levels) == [fetched |-> TRUE, levels |-> Some(levels)]

\* what get_order_book and the look-up of its "bids" / "asks" array can give
Books ==
    { [fetched |-> FALSE, levels |-> None],
      [fetched |-> TRUE, levels |-> None],
      Book(<<>>),
      Book(<<[price |-> 0, size |-> 0, ok |-> FALSE]>>),
      Book(<<Level(50, 300)>>),
      Book(<<Level(50, 50)>>),
      Book(<<Level(50, 0)>>),
      Book(<<Level(60, 0)>>),
      Book(<<Level(40, 1000), Level(60, 200), Level(60, 700)>>),
      Book(<<Level(90, 100000)>>) }

\* the books a stream session meets, and those of a direct call
MainBooks == { [fetched |-> FALSE, levels |-> None], Book(<<>>), Book(<<Level(50, 300)>>) }
BooksOf(who) == IF who = "session" THEN MainBooks ELSE Books

MainHoldings == { None, Some(Position(3000, 60)) }
\* the tracked trader's residual position in the traded market
MainUserHoldings == { None, Some(Position(6000, 50)) }
MainBalances == { 100000 }

-----------------------------------------------------------------------------
(* State *)

\* no calculation made
NoCalc == [ trader_order_size |-> 0, base_amount |-> 0, final_amount |-> 0,
            strategy |-> "", capped_by_max |-> FALSE, reduced_by_balance |-> FALSE,
            below_minimum |-> FALSE, reasoning |-> <<>> ]

NoCall == [condition |-> "", my_position |-> None, user_position |-> None,
           trade |-> ToUserActivity(NoFrame), my_balance |-> 0]

\* no fetch_data call was made
NoFetch == [retries |-> 0, attempt |-> 0, state |-> "none", last |-> "", waits |-> <<>>]

\* no calculation was made before
NoPrev == [call |-> NoCall, calc |-> NoCalc]

InitCommon ==
    /\ prev_calc = NoPrev
    /\ snapshot = None
    /\ tiers_str = <<>>
    /\ parsed = NoParse
    /\ reconnect_attempts = 0
    /\ delay = 0
    /\ monitorResult = "running"
    /\ failsSinceConnected = 0
    /\ consecFails = 0
    /\ acked = FALSE
    /\ refreshAlive = 0
    /\ frame = NoFrame
    /\ outcome = "none"
    /\ inHandling = 0
    /\ activeLoops = 0
    /\ myHolding = None
    /\ userHolding = None
    /\ call = NoCall
    /\ loop = NoLoop
    /\ order_calc = NoCalc
    /\ lastOrder = None
    /\ result = "none"
    /\ sent = 0

Init ==
    /\ cfg \in MainEnvs
    /\ store \in {None, Some(1)}
    /\ pc = "main"
    /\ caller = "session"
    /\ fetch = NoFetch
    /\ InitCommon

-----------------------------------------------------------------------------
(* start_trade_monitor and connect_rtds *)

\* main: exit(1) unless PREVIEW_MODE, else the services are spawned
MainStart ==
    /\ pc = "main"
    /\ pc' = IF ~cfg.preview_mode THEN "exited" ELSE "init"
    /\ UNCHANGED <<cfg, tiers_str, parsed, prev_calc, snapshot, caller, fetch, monitorVars, refreshAlive, store, frameVars,
                   inHandling, myHolding, userHolding, execVars>>

\* main: SIGINT ends the wait on ctrl_c, main returns and every task goes with it
Shutdown ==
    /\ pc \notin {"main", "exited"}
    /\ pc' = "exited"
    /\ refreshAlive' = 0
    /\ inHandling' = 0
    /\ activeLoops' = 0
    /\ UNCHANGED <<cfg, tiers_str, parsed, prev_calc, snapshot, caller, fetch, monitorVars, store, frameVars,
                   myHolding, userHolding, call, loop, order_calc, lastOrder, result, sent>>

\* show_my_positions and show_traders_positions, before the loop
MonitorInit ==
    /\ pc = "init"
    /\ \/ pc' = "connect" /\ UNCHANGED monitorResult
       \/ pc' = "returned" /\ monitorResult' = "err_init"
    /\ UNCHANGED <<cfg, tiers_str, parsed, prev_calc, snapshot, caller, fetch, reconnect_attempts, delay, failsSinceConnected,
                   consecFails, refreshAlive, store, frameVars, inHandling,
                   myHolding, userHolding, execVars>>

\* connect_rtds returned Err: the Err arm of start_trade_monitor's match
SessionFailed ==
    /\ reconnect_attempts' = reconnect_attempts + 1
    /\ consecFails' = consecFails + 1
    /\ failsSinceConnected' = failsSinceConnected + 1
    /\ IF MaxAttemptsReached(reconnect_attempts + 1)
       THEN pc' = "returned" /\ monitorResult' = "err_max" /\ delay' = 0
       ELSE pc' = "sleep" /\ delay' = ReconnectDelay(reconnect_attempts + 1)
            /\ UNCHANGED monitorResult

\* connect_rtds returned Ok: the Ok arm, and the next turn of the loop
SessionEnded ==
    /\ reconnect_attempts' = 0
    /\ consecFails' = 0
    /\ pc' = "connect"
    /\ UNCHANGED <<delay, monitorResult, failsSinceConnected>>

ConnectFail ==
    /\ pc = "connect"
    /\ SessionFailed
    /\ UNCHANGED <<cfg, tiers_str, parsed, prev_calc, snapshot, caller, fetch, refreshAlive, store, frameVars, inHandling,
                   myHolding, userHolding, execVars>>

ConnectOk ==
    /\ pc = "connect"
    /\ pc' = "subscribe"
    /\ failsSinceConnected' = 0
    /\ acked' = FALSE
    /\ frame' = NoFrame
    /\ outcome' = "none"
    /\ UNCHANGED <<cfg, tiers_str, parsed, prev_calc, snapshot, caller, fetch, reconnect_attempts, delay, monitorResult, consecFails,
                   refreshAlive, store, inHandling, myHolding, userHolding, execVars>>

SubscribeFail ==
    /\ pc = "subscribe"
    /\ SessionFailed
    /\ UNCHANGED <<cfg, tiers_str, parsed, prev_calc, snapshot, caller, fetch, refreshAlive, store, frameVars, inHandling,
                   myHolding, userHolding, execVars>>

\* the subscribe message is sent and the refresh task spawned
SubscribeOk ==
    /\ pc = "subscribe"
    /\ refreshAlive < MaxRefreshTasks
    /\ refreshAlive' = refreshAlive + 1
    /\ pc' = "read"
    /\ UNCHANGED <<cfg, tiers_str, parsed, prev_calc, snapshot, caller, fetch, monitorVars, store, frameVars, inHandling,
                   myHolding, userHolding, execVars>>

SleepDone ==
    /\ pc = "sleep"
    /\ pc' = "connect"
    /\ delay' = 0
    /\ UNCHANGED <<cfg, tiers_str, parsed, prev_calc, snapshot, caller, fetch, reconnect_attempts, monitorResult, failsSinceConnected,
                   consecFails, refreshAlive, store, frameVars, inHandling,
                   myHolding, userHolding, execVars>>

\* ws_stream.next() gave None, or a Close frame: break, abort the refresh task, Ok
StreamClosed ==
    /\ AwaitingFrame
    /\ refreshAlive' = refreshAlive - 1
    /\ SessionEnded
    /\ UNCHANGED <<cfg, tiers_str, parsed, prev_calc, snapshot, caller, fetch, store, frameVars, inHandling, myHolding, userHolding, execVars>>

\* ws_stream.next() gave Some(Err): msg? returns before the abort
ReadError ==
    /\ AwaitingFrame
    /\ SessionFailed
    /\ UNCHANGED <<cfg, tiers_str, parsed, prev_calc, snapshot, caller, fetch, refreshAlive, store, frameVars, inHandling,
                   myHolding, userHolding, execVars>>

\* a binary, ping or pong frame
OtherFrame ==
    /\ AwaitingFrame
    /\ outcome' = "ignored"
    /\ UNCHANGED <<cfg, tiers_str, parsed, prev_calc, snapshot, pc, caller, fetch, monitorVars, refreshAlive, store, frame, acked,
                   inHandling, myHolding, userHolding, execVars>>

\* a text frame that is no JSON, or no message the session acts on
FrameDropped ==
    /\ AwaitingFrame
    /\ \E f \in Frames :
          /\ ~f.parse \/ (~IsSubscriptionAck(f)
                          /\ ~(IsTradeMessage(f) /\ IsTracked(cfg, f.wallet)))
          /\ frame' = f
    /\ outcome' = "dropped"
    /\ UNCHANGED <<cfg, tiers_str, parsed, prev_calc, snapshot, pc, caller, fetch, monitorVars, refreshAlive, store, acked,
                   inHandling, myHolding, userHolding, execVars>>

FrameAck ==
    /\ AwaitingFrame
    /\ \E f \in Frames :
          /\ f.parse /\ IsSubscriptionAck(f)
          /\ frame' = f
    /\ outcome' = "ack"
    /\ acked' = TRUE
    /\ UNCHANGED <<cfg, tiers_str, parsed, prev_calc, snapshot, pc, caller, fetch, monitorVars, refreshAlive, store,
                   inHandling, myHolding, userHolding, execVars>>

\* a trade of a tracked address, dispatched and skipped as too old
FrameStale ==
    /\ AwaitingFrame
    /\ \E f \in Frames :
          /\ f.parse /\ ~IsSubscriptionAck(f)
          /\ IsTradeMessage(f) /\ IsTracked(cfg, f.wallet)
          /\ IsTooOld(cfg, ToUserActivity(f).timestamp)
          /\ frame' = f
    /\ outcome' = "stale"
    /\ UNCHANGED <<cfg, tiers_str, parsed, prev_calc, snapshot, pc, caller, fetch, monitorVars, refreshAlive, store, acked,
                   inHandling, myHolding, userHolding, execVars>>

\* a trade of a tracked address, dispatched and handed to execute_trade_directly
FrameAccepted ==
    /\ AwaitingFrame
    /\ \E f \in Frames :
          /\ f.parse /\ ~IsSubscriptionAck(f)
          /\ IsTradeMessage(f) /\ IsTracked(cfg, f.wallet)
          /\ ~IsTooOld(cfg, ToUserActivity(f).timestamp)
          /\ frame' = f
    /\ outcome' = "accepted"
    /\ pc' = "fetch_positions"
    /\ inHandling' = inHandling + 1
    /\ myHolding' = None
    /\ userHolding' = None
    /\ UNCHANGED <<cfg, tiers_str, parsed, prev_calc, snapshot, caller, fetch, monitorVars, refreshAlive, store, acked, execVars>>

\* one tick of a live refresh task: update_positions
RefreshTick ==
    /\ refreshAlive > 0
    /\ \E positions \in {None, Some(1), Some(2)} :
          /\ snapshot' = positions
          /\ store' = IF IsSome(positions) THEN UpdateOne(store, positions[1]) ELSE store
    /\ UNCHANGED <<cfg, tiers_str, parsed, prev_calc, pc, caller, fetch, monitorVars, refreshAlive, frameVars, inHandling,
                   myHolding, userHolding, execVars>>

-----------------------------------------------------------------------------
(* execute_trade_directly and post_order *)

\* the call is over: its result is on its way back to the caller
Return(res) ==
    /\ result' = res
    /\ pc' = "return"

\* post_order is entered with call c: it returns at once or starts a loop
Enter(c) ==
    LET l == PostOrderEntry(cfg.copy_strategy_config, c)
    IN  /\ call' = c
        /\ lastOrder' = None
        /\ UNCHANGED sent
        /\ order_calc' = IF c.condition = "buy"
                         THEN calculate_order_size(cfg.copy_strategy_config,
                                  c.trade.usdc_size, c.my_balance,
                                  CurrentPositionValue(c.my_position))
                         ELSE NoCalc
        /\ IF l.kind # "none" /\ LoopCond(l, cfg.retry_limit)
           THEN /\ loop' = l
                /\ activeLoops' = activeLoops + 1
                /\ pc' = "exec"
                /\ UNCHANGED result
           ELSE /\ loop' = NoLoop
                /\ UNCHANGED activeLoops
                /\ Return("ok")

\* a loop iteration has run on a fetched book: go on, or leave the loop and return
Advance(r) ==
    /\ loop' = r.loop
    /\ lastOrder' = r.order
    /\ sent' = sent + r.sent
    /\ UNCHANGED order_calc
    /\ IF r.next = "continue" /\ LoopCond(r.loop, cfg.retry_limit)
       THEN UNCHANGED <<pc, activeLoops, result>>
       ELSE /\ activeLoops' = activeLoops - 1
            /\ Return(IF r.next = "err" THEN "err" ELSE "ok")

\* faulty variant: the Err of a handling leaves connect_rtds with ?
ReturnedPropagating ==
    /\ pc = "return"
    /\ IF caller = "session"
       THEN /\ IF result = "err"
               THEN SessionFailed
               ELSE pc' = "read" /\ UNCHANGED monitorVars
            /\ inHandling' = inHandling - 1
            /\ call' = NoCall /\ loop' = NoLoop /\ lastOrder' = None
            /\ order_calc' = NoCalc
            /\ result' = "none" /\ myHolding' = None /\ userHolding' = None
       ELSE /\ pc' = "done"
            /\ UNCHANGED <<inHandling, call, loop, order_calc, lastOrder, result,
                         myHolding, userHolding, monitorVars>>
    /\ UNCHANGED <<cfg, tiers_str, parsed, prev_calc, snapshot, caller, fetch, refreshAlive, store, frameVars, activeLoops, sent>>

\* back in connect_rtds (an Err is logged there), or in the direct caller
Returned ==
    /\ pc = "return"
    /\ IF caller = "session"
       THEN /\ pc' = "read"
            /\ inHandling' = inHandling - 1
            /\ call' = NoCall /\ loop' = NoLoop /\ lastOrder' = None
            /\ order_calc' = NoCalc
            /\ result' = "none" /\ myHolding' = None /\ userHolding' = None
       ELSE /\ pc' = "done"
            /\ UNCHANGED <<inHandling, call, loop, order_calc, lastOrder, result,
                         myHolding, userHolding>>
    /\ UNCHANGED <<cfg, tiers_str, parsed, prev_calc, snapshot, caller, fetch, monitorVars, refreshAlive, store, frameVars, activeLoops, sent>>

\* the two position fetches of execute_trade_directly
FetchPositions ==
    /\ pc = "fetch_positions"
    /\ \/ /\ \E h \in MainHoldings, u \in MainUserHoldings :
                myHolding' = h /\ userHolding' = u
          /\ pc' = "fetch_balance"
          /\ UNCHANGED result
       \/ /\ UNCHANGED <<myHolding, userHolding>>
          /\ Return("err")
    /\ UNCHANGED <<cfg, tiers_str, parsed, prev_calc, snapshot, caller, fetch, monitorVars, refreshAlive, store, frameVars,
                   inHandling, call, loop, order_calc, lastOrder, activeLoops, sent>>

\* get_my_balance failed: the error is logged by connect_rtds
FetchBalanceFail ==
    /\ pc = "fetch_balance"
    /\ Return("err")
    /\ UNCHANGED <<cfg, tiers_str, parsed, prev_calc, snapshot, caller, fetch, monitorVars, refreshAlive, store, frameVars,
                   inHandling, myHolding, userHolding, call, loop, order_calc,
                   lastOrder, activeLoops, sent>>

\* get_my_balance, then post_order with no position passed
FetchBalanceOk ==
    /\ pc = "fetch_balance"
    /\ \E b \in MainBalances :
          Enter([ condition     |-> IF ToUserActivity(frame).side = "BUY"
                                    THEN "buy" ELSE "sell",
                  my_position   |-> None,
                  user_position |-> None,
                  trade         |-> ToUserActivity(frame),
                  my_balance    |-> b ])
    /\ UNCHANGED <<cfg, tiers_str, parsed, prev_calc, snapshot, caller, fetch, monitorVars, refreshAlive, store, frameVars,
                   inHandling, myHolding, userHolding>>

BuyStep ==
    /\ pc = "exec" /\ loop.kind = "buy"
    /\ \E ob \in BooksOf(caller) : Advance(BuyBody(cfg.copy_strategy_config, loop, ob))
    /\ UNCHANGED <<cfg, tiers_str, parsed, prev_calc, snapshot, caller, fetch, monitorVars, refreshAlive, store, frameVars,
                   inHandling, myHolding, userHolding, call>>

SellStep ==
    /\ pc = "exec" /\ loop.kind = "sell"
    /\ \E ob \in BooksOf(caller) : Advance(SellBody(loop, ob))
    /\ UNCHANGED <<cfg, tiers_str, parsed, prev_calc, snapshot, caller, fetch, monitorVars, refreshAlive, store, frameVars,
                   inHandling, myHolding, userHolding, call>>

MergeStep ==
    /\ pc = "exec" /\ loop.kind = "merge"
    /\ \E ob \in BooksOf(caller) : Advance(MergeBody(loop, ob))
    /\ UNCHANGED <<cfg, tiers_str, parsed, prev_calc, snapshot, caller, fetch, monitorVars, refreshAlive, store, frameVars,
                   inHandling, myHolding, userHolding, call>>

Next ==
    \/ MainStart
    \/ Shutdown
    \/ MonitorInit
    \/ ConnectFail
    \/ ConnectOk
    \/ SubscribeFail
    \/ SubscribeOk
    \/ SleepDone
    \/ StreamClosed
    \/ ReadError
    \/ OtherFrame
    \/ FrameDropped
    \/ FrameAck
    \/ FrameStale
    \/ FrameAccepted
    \/ RefreshTick
    \/ FetchPositions
    \/ FetchBalanceFail
    \/ FetchBalanceOk
    \/ BuyStep
    \/ Returned

Spec == Init /\ [][Next]_vars

\* the runtime keeps polling its tasks: main starts, timers fire, refresh ticks
\* come, handlers return; a SIGINT may never come
SpecLive ==
    Spec /\ WF_vars(MainStart) /\ WF_vars(MonitorInit) /\ WF_vars(SleepDone)
         /\ WF_vars(RefreshTick) /\ WF_vars(BuyStep) /\ WF_vars(Returned)

-----------------------------------------------------------------------------
(* post_order called directly, with every combination of arguments *)

ExecStrategies ==
    { Strategy(1, 10000, None),
      Strategy(0, 10000, None),
      Strategy(100, 10000, Some(2000)),
      Strategy(100, 300, Some(100000)),
      [Strategy(100, 10000, None) EXCEPT !.trade_multiplier = Some(200)] }

Trade(side, size, price) ==
    [ToUserActivity(TradeFrame(Some(Tracked), Some(Now), "ms", side))
        EXCEPT !.size = size, !.price = price, !.usdc_size = FMul(size, price)]

ExecTrades == { Trade("BUY", 10000, 50), Trade("BUY", 600, 50), Trade("SELL", 4000, 50) }
ExecPositions == { None, Some(Position(50, 60)), Some(Position(1000, 60)),
                   Some(Position(2000, 60)), Some(Position(3300, 60)) }
ExecUserPositions == { None, Some(Position(6000, 50)) }
ExecBalances == { 50, 100, 300, 100000 }

InitExec ==
    /\ cfg \in {EnvOf(st) : st \in ExecStrategies}
    /\ store = None
    /\ pc = "idle"
    /\ caller = "direct"
    /\ fetch = NoFetch
    /\ InitCommon

DirectCall ==
    /\ pc = "idle"
    /\ \E cond \in {"buy", "sell", "merge"}, my \in ExecPositions,
          user \in ExecUserPositions, t \in ExecTrades, b \in ExecBalances :
          Enter([ condition |-> cond, my_position |-> my, user_position |-> user,
                  trade |-> t, my_balance |-> b ])
    /\ UNCHANGED <<cfg, tiers_str, parsed, prev_calc, snapshot, caller, fetch, monitorVars, refreshAlive, store, frameVars,
                   inHandling, myHolding, userHolding>>

NextExec ==
    \/ DirectCall
    \/ BuyStep
    \/ SellStep
    \/ MergeStep
    \/ Returned

SpecExec == InitExec /\ [][NextExec]_vars

\* the task running a loop keeps being polled, and every order-book fetch returns
SpecExecFair ==
    SpecExec /\ WF_vars(BuyStep) /\ WF_vars(SellStep) /\ WF_vars(MergeStep)
             /\ WF_vars(Returned)

-----------------------------------------------------------------------------
(* calculate_order_size called directly *)

Adaptive(copy_size, min_percent, max_percent, threshold) ==
    [Strategy(100, 10000, None) EXCEPT
        !.strategy = "ADAPTIVE", !.copy_size = copy_size,
        !.adaptive_min_percent = Some(min_percent),
        !.adaptive_max_percent = Some(max_percent),
        !.adaptive_threshold = Some(threshold)]

SizingStrategies ==
    { Strategy(100, 5000, None),
      Strategy(100, 5000, Some(2000)),
      [Strategy(100, 10000, None) EXCEPT !.strategy = "FIXED", !.copy_size = 2500],
      [Strategy(100, 10000, None) EXCEPT !.trade_multiplier = Some(200)],
      [Strategy(100, 10000, None) EXCEPT !.trade_multiplier = Some(300),
                                         !.tiered_multipliers = Some(<<>>)],
      [Strategy(100, 10000, None) EXCEPT !.tiered_multipliers =
          Some(<<MultiplierTier(0, Some(10000), 200), MultiplierTier(10000, Some(50000), 100),
                 MultiplierTier(50000, None, 50)>>)],
      [Strategy(100, 10000, None) EXCEPT
          !.trade_multiplier = Some(400),
          !.tiered_multipliers =
             Some(<<MultiplierTier(5000, Some(25000), 300), MultiplierTier(50000, Some(75000), 50)>>)],
      Adaptive(1000, 500, 2000, 50000),
      Adaptive(1000, 2000, 3000, 50000) } \cup LoadedStrategies

SizingNotionals == { 0, 1000, 5000, 10000, 25000, 50000, 75000, 100000, 150000 }
SizingBalances == { 100, 500, 100000 }
SizingPositions == { 0, 1980 }

InitSizing ==
    /\ cfg \in {EnvOf(st) : st \in SizingStrategies}
    /\ store = None
    /\ pc = "idle"
    /\ caller = "sizing"
    /\ fetch = NoFetch
    /\ InitCommon

\* faulty variant: the position is topped up with what the call before returned
SizeCallRemembering ==
    /\ pc = "idle"
    /\ \E n \in SizingNotionals, b \in SizingBalances, p \in SizingPositions :
          /\ call' = [NoCall EXCEPT !.trade.usdc_size = n, !.my_balance = b,
                                    !.my_position = Some(Position(p, Scale))]
          /\ order_calc' = calculate_order_size(cfg.copy_strategy_config, n, b,
                                                p + prev_calc.calc.final_amount)
    /\ pc' = "sized"
    /\ UNCHANGED <<cfg, tiers_str, parsed, prev_calc, snapshot, caller, fetch, monitorVars, refreshAlive, store, frameVars, inHandling,
                   myHolding, userHolding, loop, lastOrder, result, activeLoops, sent>>

\* calculate_order_size(config, trader_order_size, available_balance, position)
SizeCall ==
    /\ pc = "idle"
    /\ \E n \in SizingNotionals, b \in SizingBalances, p \in SizingPositions :
          /\ call' = [NoCall EXCEPT !.trade.usdc_size = n, !.my_balance = b,
                                    !.my_position = Some(Position(p, Scale))]
          /\ order_calc' = calculate_order_size(cfg.copy_strategy_config, n, b, p)
    /\ pc' = "sized"
    /\ UNCHANGED <<cfg, tiers_str, parsed, prev_calc, snapshot, caller, fetch, monitorVars, refreshAlive, store, frameVars, inHandling,
                   myHolding, userHolding, loop, lastOrder, result, activeLoops, sent>>

\* the caller is done with the calculation; the next call may repeat its arguments
SizeDone ==
    /\ pc = "sized"
    /\ pc' = "idle"
    /\ prev_calc' = [call |-> call, calc |-> order_calc]
    /\ call' = NoCall
    /\ order_calc' = NoCalc
    /\ UNCHANGED <<cfg, tiers_str, parsed, snapshot, caller, fetch, monitorVars, refreshAlive, store, frameVars, inHandling,
                   myHolding, userHolding, loop, lastOrder, result, activeLoops, sent>>

NextSizing ==
    \/ SizeCall
    \/ SizeDone

SpecSizing == InitSizing /\ [][NextSizing]_vars

-----------------------------------------------------------------------------
(* parse_tiered_multipliers called directly *)

MaxTiers == 2

\* tiers as they are written, in dollars: "min-max:multiplier", "min+:multiplier"
WrittenTiers ==
    { MultiplierTier(0, Some(100), 2), MultiplierTier(50, Some(150), 3), MultiplierTier(100, Some(50), 2),
      MultiplierTier(100, Some(200), 1), MultiplierTier(100, Some(100), 1), MultiplierTier(200, Some(500), 1),
      MultiplierTier(150, Some(300), 2),
      MultiplierTier(0, None, 1), MultiplierTier(100, None, 3), MultiplierTier(500, None, 3) }

TierText(w) ==
    IF IsSome(w.max)
    THEN <<Num(w.min), Sym("-"), Num(w.max[1]), Sym(":"), Num(w.multiplier)>>
    ELSE <<Num(w.min), Sym("+"), Sym(":"), Num(w.multiplier)>>

RECURSIVE ListText(_)
ListText(ws) ==
    IF Len(ws) = 0 THEN <<>>
    ELSE IF Len(ws) = 1 THEN TierText(ws[1])
    ELSE TierText(ws[1]) \o <<Sym(",")>> \o ListText(Tail(ws))

WrittenLists == UNION {[1..n -> WrittenTiers] : n \in 1..MaxTiers}

\* texts that are no list of well-written tiers
OtherTexts ==
    { <<>>,
      <<Sym(",")>>,
      <<Num(0), Sym("-"), Num(100)>>,
      <<Num(100), Sym(":"), Num(2)>>,
      <<Num(0), Sym("-"), Num(100), Sym(":"), Sym("-"), Num(2)>>,
      <<Sym("-"), Num(5), Sym("-"), Num(10), Sym(":"), Num(1)>>,
      <<Sym("-"), Num(5), Sym("+"), Sym(":"), Num(1)>>,
      <<Num(0), Sym("-"), Num(100), Sym(":"), Num(2), Sym(":"), Num(3)>>,
      <<Num(0), Sym("-"), Num(100), Sym(":"), Num(2), Sym(",")>> }

TierTexts == {ListText(ws) : ws \in WrittenLists} \cup OtherTexts

InitParse ==
    /\ cfg = EnvOf(Strategy(1, 10000, None))
    /\ store = None
    /\ pc = "idle"
    /\ caller = "parse"
    /\ fetch = NoFetch
    /\ InitCommon

ParseCall ==
    /\ pc = "idle"
    /\ \E text \in TierTexts :
          /\ tiers_str' = text
          /\ parsed' = parse_tiered_multipliers(text)
    /\ pc' = "parsed"
    /\ UNCHANGED <<cfg, prev_calc, snapshot, caller, fetch, monitorVars, refreshAlive, store, frameVars, inHandling,
                   myHolding, userHolding, execVars>>

ParseDone ==
    /\ pc = "parsed"
    /\ pc' = "idle"
    /\ tiers_str' = <<>>
    /\ parsed' = NoParse
    /\ UNCHANGED <<cfg, prev_calc, snapshot, caller, fetch, monitorVars, refreshAlive, store, frameVars, inHandling,
                   myHolding, userHolding, execVars>>

NextParse ==
    \/ ParseCall
    \/ ParseDone

SpecParse == InitParse /\ [][NextParse]_vars

-----------------------------------------------------------------------------
(* utils/fetch_data.rs: fetch_data called directly *)

\* NETWORK_RETRY_LIMIT as validate_numeric_config accepts it
MinNetworkRetryLimit == 1
MaxNetworkRetryLimit == 10

\* what one send().await gives: a response with a success status whose body
\* is JSON or is not, a response with another status, or a reqwest error with
\* what is_timeout, is_connect and is_request say of it and whether its text
\* contains "network"
SendError(name, timeout, connect, request, text) ==
    [kind |-> "error", name |-> name, is_timeout |-> timeout, is_connect |-> connect,
     is_request |-> request, text_has_network |-> text]

SendOutcomes ==
    { [kind |-> "success", name |-> "json"],
      [kind |-> "success", name |-> "not_json"],
      [kind |-> "status", name |-> "http_status"],
      SendError("timeout", TRUE, FALSE, FALSE, FALSE),
      SendError("connect", FALSE, TRUE, FALSE, FALSE),
      SendError("request", FALSE, FALSE, TRUE, FALSE),
      SendError("redirect", FALSE, FALSE, FALSE, FALSE),
      SendError("redirect_network_url", FALSE, FALSE, FALSE, TRUE) }

\* e.is_timeout() || e.is_connect() || e.is_request() || e.to_string().contains("network")
is_network_error(e) ==
    e.is_timeout \/ e.is_connect \/ e.is_request \/ e.text_has_network

\* faulty variant: the delay grows by one second per attempt
BackoffLinear(attempt) == attempt

\* retry_delay * (1 << (attempt - 1)), in seconds; attempt - 1 <= 9, no bit is shifted out
Backoff(attempt) == 1 * (2 ^ (attempt - 1))

\* faulty variant: the last attempt is followed by a sleep too
MayRetryAlways(attempt, retries) == TRUE

\* attempt < retries
MayRetry(attempt, retries) == attempt < retries

\* the next turn of 'for attempt in 1..=retries', or unreachable!() after it
ForNext(f, attempt) ==
    IF attempt <= f.retries
    THEN [f EXCEPT !.attempt = attempt, !.state = "sending"]
    ELSE [f EXCEPT !.state = "panic"]

InitFetch ==
    /\ cfg = EnvOf(Strategy(1, 10000, None))
    /\ store = None
    /\ pc = "idle"
    /\ caller = "fetch"
    /\ fetch \in { [NoFetch EXCEPT !.retries = r, !.state = "called"] :
                     r \in MinNetworkRetryLimit..MaxNetworkRetryLimit }
    /\ InitCommon

FetchUnchanged ==
    UNCHANGED <<cfg, tiers_str, parsed, pc, caller, monitorVars, refreshAlive, store,
                snapshot, frameVars, inHandling, myHolding, userHolding, execVars,
                prev_calc>>

\* Client::builder().timeout(timeout).build()? and the first turn of the loop
FetchBuild ==
    /\ fetch.state = "called"
    /\ \/ fetch' = [fetch EXCEPT !.state = "err", !.last = "build"]
       \/ fetch' = ForNext(fetch, 1)
    /\ FetchUnchanged

\* one send().await and the arm of the match its outcome takes
FetchSend ==
    /\ fetch.state = "sending"
    /\ \E o \in SendOutcomes :
          LET f == [fetch EXCEPT !.last = o.name]
              sleep == [f EXCEPT !.state = "sleeping",
                                 !.waits = Append(@, Backoff(fetch.attempt))]
              fail == [f EXCEPT !.state = "err"]
          IN  fetch' =
                CASE o.kind = "success" ->
                        IF o.name = "json" THEN [f EXCEPT !.state = "ok"] ELSE fail
                  [] o.kind = "status" ->
                        IF MayRetry(fetch.attempt, fetch.retries) THEN sleep ELSE fail
                  [] OTHER ->
                        IF is_network_error(o) /\ MayRetry(fetch.attempt, fetch.retries)
                        THEN sleep ELSE fail
    /\ FetchUnchanged

\* tokio::time::sleep(delay) is over: continue
FetchWake ==
    /\ fetch.state = "sleeping"
    /\ fetch' = ForNext(fetch, fetch.attempt + 1)
    /\ FetchUnchanged

NextFetch ==
    \/ FetchBuild
    \/ FetchSend
    \/ FetchWake

\* every request ends, by its timeout at the latest, and every sleep ends
SpecFetch == InitFetch /\ [][NextFetch]_vars /\ WF_vars(NextFetch)

-----------------------------------------------------------------------------
(* Properties *)

Handling == {"fetch_positions", "fetch_balance", "exec", "return"}

\* C1: connection attempts that keep failing are not retried forever: the
\* MAX_RECONNECT_ATTEMPTS-th consecutive failed connect_rtds call makes
\* start_trade_monitor return the error, and once it has returned there is no
\* further connection attempt and no further sleep.
C1_ReconnectBounded ==
    /\ [](/\ consecFails <= MAX_RECONNECT_ATTEMPTS
          /\ consecFails = MAX_RECONNECT_ATTEMPTS
                => pc \in {"returned", "exited"} /\ monitorResult = "err_max"
          /\ monitorResult = "err_max" => consecFails = MAX_RECONNECT_ATTEMPTS
          /\ pc = "sleep" => consecFails < MAX_RECONNECT_ATTEMPTS)
    /\ [][pc = "returned" => pc' \in {"returned", "exited"} /\ delay' = delay]_vars

C1_Witness ==
    pc = "returned" /\ monitorResult = "err_max" /\ consecFails = MAX_RECONNECT_ATTEMPTS

\* C2: trades of one connection are handled one at a time: at most one
\* process_trade_activity and at most one execution loop are in progress, none
\* is when the session reads its next frame, and a loop step places at most
\* one order.
C2_OneTradeAtATime ==
    /\ [](/\ inHandling <= 1
          /\ activeLoops <= 1
          /\ activeLoops <= inHandling
          /\ pc = "read" => inHandling = 0 /\ activeLoops = 0)
    /\ [][loop'.orders <= loop.orders + 1]_vars

C2_Witness ==
    pc = "exec" /\ inHandling = 1 /\ activeLoops = 1 /\ loop.orders >= 2

\* C3: the refresh task of a session is cancelled on every exit of the session,
\* so none is alive outside a session and at most one is alive at any time.
C3_RefreshCancelled ==
    /\ refreshAlive <= 1
    /\ pc \in {"init", "connect", "subscribe", "sleep", "returned"} => refreshAlive = 0

\* C4: no execution loop places an order of less than one token.
C4_NoOrderBelowOneToken ==
    IsSome(lastOrder) => lastOrder[1].tokens >= MIN_ORDER_SIZE_TOKENS

\* C5: in every execution loop the partial fills add up to at most the target
\* (tokens for sell and merge, dollars for buy).
C5_FillsWithinTarget ==
    /\ loop.filled <= loop.target
    /\ loop.remaining >= 0
    /\ IsSome(lastOrder) =>
          (IF loop.kind = "buy" THEN lastOrder[1].usd ELSE lastOrder[1].tokens)
             <= loop.filled

C5_Witness ==
    loop.kind = "sell" /\ loop.orders >= 2 /\ loop.filled = loop.target

\* C6: with a position cap configured, the operator's actual holding plus the
\* notional of a BUY that is attempted is at most the cap.
C6_PositionCapRespected ==
    (loop.kind = "buy" /\ caller = "session"
        /\ IsSome(cfg.copy_strategy_config.max_position_size_usd))
    => CurrentPositionValue(myHolding) + loop.target
          <= cfg.copy_strategy_config.max_position_size_usd[1]

\* the order would exceed the cap and what the cap leaves is below the minimum
CapLeavesLessThanMinimum(config, c) ==
    LET cur == CurrentPositionValue(c.my_position)
        amount == AfterMaxCap(config,
                      FMul(BaseAmount(config, c.trade.usdc_size),
                           get_trade_multiplier(config, c.trade.usdc_size)))
    IN  /\ IsSome(config.max_position_size_usd)
        /\ cur + amount > config.max_position_size_usd[1]
        /\ Max(config.max_position_size_usd[1] - cur, 0) < config.min_order_size_usd

\* C7: when the position cap leaves less than the minimum order size,
\* calculate_order_size returns 0 and the BUY path places no order.
C7_CapSkipsTrade ==
    (call.condition = "buy"
        /\ CapLeavesLessThanMinimum(cfg.copy_strategy_config, call))
    => /\ calculate_order_size(cfg.copy_strategy_config, call.trade.usdc_size,
                               call.my_balance,
                               CurrentPositionValue(call.my_position)).final_amount = 0
       /\ loop.kind = "none"
       /\ lastOrder = None

\* C8: the reconnection delay is the base delay times the number of failures
\* since the last successful connection, capped at five times the base delay.
C8_DelayResetsOnConnection ==
    pc = "sleep" =>
       /\ delay <= RECONNECT_DELAY_SECS * DelayCap
       /\ delay = RECONNECT_DELAY_SECS * Min(failsSinceConnected, DelayCap)

\* the time of the trade in milliseconds, by the unit its timestamp is given in
TrueTimestamp(f) ==
    LET t == UnwrapOr(f.timestamp, 0)
    IN  IF f.unit = "ms" THEN t ELSE t * SecToMs

OlderThanWindow(f) == Now - TrueTimestamp(f) > cfg.too_old_timestamp * HourUnits

\* C9 as stated: a trade older than TOO_OLD_TIMESTAMP hours, its timestamp in
\* seconds or in milliseconds, never reaches execute_trade_directly.
C9_StaleNeverActedOn ==
    pc \in Handling => ~OlderThanWindow(frame)

\* the magnitude of the timestamp tells its unit, as the program assumes
UnitByMagnitude(f) ==
    LET t == UnwrapOr(f.timestamp, 0)
    IN  (f.unit = "ms") <=> (t > MsThreshold)

\* C9, amended: a trade older than the window whose timestamp is in seconds and
\* at most 10^12, or in milliseconds and above 10^12, never reaches
\* execute_trade_directly: it is skipped before any fetch.
C9_StaleSkippedByMagnitude ==
    /\ (pc \in Handling /\ UnitByMagnitude(frame)) => ~OlderThanWindow(frame)
    /\ (outcome = "stale" /\ UnitByMagnitude(frame)) => OlderThanWindow(frame)

C9_Witness ==
    /\ pc = "read" /\ outcome = "stale"
    /\ frame.unit = "s" /\ IsSome(frame.timestamp) /\ frame.timestamp[1] > 0
    /\ OlderThanWindow(frame)

SameIgnoringCase(a, b) ==
    Len(a) = Len(b) /\ \A i \in 1..Len(a) : LowerChar(a[i]) = LowerChar(b[i])

\* a well-formed trade-activity message of a tracked address
TrackedTradeMessage(f) ==
    /\ f.parse /\ f.topic = "activity" /\ f.type = "trades" /\ f.payload = "ok"
    /\ IsSome(f.wallet)
    /\ \E a \in cfg.user_addresses : SameIgnoringCase(a, f.wallet[1])

Handled == outcome \in {"dropped", "ack", "stale", "accepted"}
Dispatched == outcome \in {"stale", "accepted"}

\* C10 as stated: a text frame is dispatched if and only if it is a well-formed
\* trade-activity message whose proxy wallet is a tracked address, ignoring case.
C10_DispatchedIffTrackedTrade ==
    Handled => (Dispatched <=> TrackedTradeMessage(frame))

\* C10, amended: a text frame is dispatched if and only if it is a well-formed
\* trade-activity message of a tracked address (ignoring case) that is not a
\* subscription acknowledgment; any other text frame leaves the session reading,
\* returns no error and leaves the reconnect counter as it is.
C10_DispatchedIffTrackedTradeNotAck ==
    /\ [](Handled =>
            (Dispatched <=> (TrackedTradeMessage(frame) /\ ~IsSubscriptionAck(frame))))
    /\ [][(outcome' \in {"dropped", "ack"} /\ <<frame, outcome>>' # <<frame, outcome>>)
            => /\ pc' = "read"
               /\ reconnect_attempts' = reconnect_attempts
               /\ monitorResult' = monitorResult]_vars

C10_Witness ==
    /\ outcome = "accepted" /\ pc = "fetch_positions"
    /\ frame.wallet = Some(<<"0", "X", "A", "B">>)

\* C11: every execution loop (buy, sell, merge) terminates, for every accepted
\* configuration and every sequence of order-book responses.
C11_LoopsTerminate ==
    (pc = "exec") ~> (pc # "exec")

\* C12: for each accepted trade event exactly one action is chosen: BUY iff the
\* tracked side is BUY, SELL-PROPORTIONAL iff it is SELL and the tracked trader
\* still holds a position in the asset, MERGE (full liquidation) iff it is SELL
\* and the tracked trader holds none.
C12_ActionBySideAndResidual ==
    (caller = "session" /\ pc \in {"exec", "return"} /\ call.condition # ""
        /\ call.trade.side \in {"BUY", "SELL"})
    => LET action == ChosenAction(call)
           side == call.trade.side
       IN  /\ action \in {"BUY", "SELL-PROPORTIONAL", "MERGE"}
           /\ action = "BUY" <=> side = "BUY"
           /\ action = "SELL-PROPORTIONAL" <=> (side = "SELL" /\ IsSome(userHolding))
           /\ action = "MERGE" <=> (side = "SELL" /\ ~IsSome(userHolding))

\* a tracked SELL is being handled for the stream session, the operator holding
\* a position in the market
SellBeingHandled ==
    /\ caller = "session" /\ pc \in {"exec", "return"}
    /\ call.condition # "" /\ call.trade.side = "SELL"
    /\ IsSome(myHolding)

\* C13: for a tracked SELL of T tokens where the tracked trader retains R > 0
\* and the operator holds H, the own sell target is
\* min(H, H * T / (R + T) * multiplier).
C13_ProportionalSellTarget ==
    (SellBeingHandled /\ IsSome(userHolding) /\ UnwrapOr(userHolding, Position(0, 0)).size > 0)
    => LET H == myHolding[1].size
           T == call.trade.size
           R == userHolding[1].size
           multiplier == get_trade_multiplier(cfg.copy_strategy_config, call.trade.usdc_size)
           expected == Min(H, FMul(FMul(H, FDiv(T, R + T)), multiplier))
       IN  expected >= MIN_ORDER_SIZE_TOKENS
              => loop.kind = "sell" /\ loop.target = expected

\* C14: for a tracked SELL where the tracked trader's residual position is absent
\* and the operator holds H >= 1 tokens, the own sell target is exactly H.
C14_FullLiquidationTarget ==
    (SellBeingHandled /\ ~IsSome(userHolding)
        /\ UnwrapOr(myHolding, Position(0, 0)).size >= MIN_ORDER_SIZE_TOKENS)
    => loop.kind \in {"sell", "merge"} /\ loop.target = myHolding[1].size

\* C15: the base amount of calculate_order_size is N * copy_size / 100 under
\* PERCENTAGE and copy_size, whatever N, under FIXED.
C15_BaseAmount ==
    pc = "sized" =>
       LET config == cfg.copy_strategy_config
           N == call.trade.usdc_size
       IN  /\ config.strategy = "PERCENTAGE"
                => order_calc.base_amount = (N * config.copy_size) \div (100 * Scale)
           /\ config.strategy = "FIXED"
                => order_calc.base_amount = config.copy_size

C15_Witness ==
    /\ pc = "sized" /\ order_calc.strategy = "PERCENTAGE"
    /\ call.trade.usdc_size = 10000 /\ order_calc.base_amount = 1000

\* C16: under ADAPTIVE, for every valid configuration, the effective copy
\* percent is non-increasing in the tracked notional N over N >= threshold.
C16_AdaptiveNonIncreasing ==
    LET config == cfg.copy_strategy_config
        N == call.trade.usdc_size
    IN  (/\ pc = "sized" /\ config.strategy = "ADAPTIVE"
         /\ validate_copy_strategy_config(config)
         /\ N >= UnwrapOr(config.adaptive_threshold, DefaultAdaptiveThreshold))
        => \A n \in SizingNotionals :
              n >= N => calculate_adaptive_percent(config, n)
                           <= calculate_adaptive_percent(config, N)

\* the tier of the list that holds n: min <= n < max, no max meaning no upper end
Holds(tier, n) == tier.min <= n /\ (tier.max = None \/ n < tier.max[1])

\* C17: the multiplier lookup returns exactly one value for every N >= 0: with a
\* non-empty tier list the multiplier of the first tier holding N, or of the last
\* tier when none holds N; without tiers the single multiplier if configured;
\* otherwise 1.0.
C17_MultiplierLookup ==
    pc = "sized" =>
       LET config == cfg.copy_strategy_config
           N == call.trade.usdc_size
           m == get_trade_multiplier(config, N)
           tiers == IF config.tiered_multipliers = None THEN <<>>
                    ELSE config.tiered_multipliers[1]
       IN  IF tiers # <<>>
           THEN \/ \E i \in 1..Len(tiers) :
                      /\ Holds(tiers[i], N)
                      /\ \A j \in 1..(i - 1) : ~Holds(tiers[j], N)
                      /\ m = tiers[i].multiplier
                \/ /\ \A i \in 1..Len(tiers) : ~Holds(tiers[i], N)
                   /\ m = tiers[Len(tiers)].multiplier
           ELSE IF config.trade_multiplier # None
                THEN m = config.trade_multiplier[1]
                ELSE m = Scale

\* between two tiers, no tier holding N: the last tier's multiplier is used
C17_Witness ==
    /\ pc = "sized" /\ call.trade.usdc_size = 25000
    /\ cfg.copy_strategy_config.trade_multiplier = Some(400)
    /\ get_trade_multiplier(cfg.copy_strategy_config, call.trade.usdc_size) = 50
    /\ "multiplier" \in {order_calc.reasoning[i] : i \in DOMAIN order_calc.reasoning}

\* the ranges [min, max) of two written tiers have an amount in common
RangesOverlap(a, b) ==
    /\ (a.max = None \/ b.min < a.max[1])
    /\ (b.max = None \/ a.min < b.max[1])

\* the text handed to the parser is the list ws of written tiers
ParsedFrom(ws) == pc = "parsed" /\ tiers_str = ListText(ws)

PositiveBelowMinimum ==
    LET config == cfg.copy_strategy_config
        N == call.trade.usdc_size
        amount == AfterBalance(
                      AfterPositionCap(config,
                          AfterMaxCap(config, FMul(BaseAmount(config, N),
                                                   get_trade_multiplier(config, N))),
                          CurrentPositionValue(call.my_position)),
                      call.my_balance)
    IN  /\ call.condition = "buy" /\ pc \in {"exec", "return", "done"}
        /\ 0 < amount /\ amount < config.min_order_size_usd

\* the sizing and the loop entry of the floor case
FloorSized ==
    /\ order_calc.final_amount = cfg.copy_strategy_config.min_order_size_usd
    /\ order_calc.below_minimum
    /\ loop.kind = "buy"
    /\ loop.target = cfg.copy_strategy_config.min_order_size_usd
    /\ (loop.orders = 1 /\ IsSome(lastOrder))
          => lastOrder[1].usd = cfg.copy_strategy_config.min_order_size_usd

\* C19 as stated: an amount that is positive but below min_order_size_usd after
\* the caps becomes exactly min_order_size_usd with below_minimum set, and the
\* BUY path attempts an order of that size instead of dropping the trade.
C19_FloorOrderAttempted ==
    PositiveBelowMinimum =>
       /\ FloorSized
       /\ ~(loop.orders = 0 /\ loop.stopped = "insufficient_balance")

\* C19, amended: an amount that is positive but below min_order_size_usd after
\* the caps becomes exactly min_order_size_usd with below_minimum set; the BUY
\* path attempts an order of that size when the balance is at least
\* min_order_size_usd, and drops the trade for insufficient balance otherwise.
C19_FloorOrderAttemptedIfAffordable ==
    PositiveBelowMinimum =>
       /\ FloorSized
       /\ (loop.orders = 0 /\ loop.stopped = "insufficient_balance")
             <=> (pc # "exec"
                  /\ loop.stopped = "insufficient_balance"
                  /\ call.my_balance < cfg.copy_strategy_config.min_order_size_usd)

C19_Witness ==
    /\ PositiveBelowMinimum
    /\ loop.orders = 1 /\ IsSome(lastOrder)
    /\ lastOrder[1].usd = cfg.copy_strategy_config.min_order_size_usd
    /\ cfg.copy_strategy_config.min_order_size_usd = 100

\* the amount calculate_order_size holds when it reaches the balance step
BeforeBalanceStep ==
    LET config == cfg.copy_strategy_config
        N == call.trade.usdc_size
    IN  AfterPositionCap(config,
            AfterMaxCap(config, FMul(BaseAmount(config, N),
                                     get_trade_multiplier(config, N))),
            CurrentPositionValue(call.my_position))

\* C20: the balance step reduces the amount to exactly 99% of the available
\* balance and sets reduced_by_balance exactly when the amount after the
\* earlier caps exceeds that value (the minimum step may then raise it); with
\* PERCENTAGE 10%, notional 100, min 1, max 50, a balance of 1000 gives 10 with
\* no flag and a balance of 5 gives 4.95.
C20_BalanceStep ==
    pc = "sized" =>
       LET config == cfg.copy_strategy_config
           affordable == (call.my_balance * 99) \div 100
           example == /\ config = Strategy(100, 5000, None)
                      /\ call.trade.usdc_size = 10000
                      /\ CurrentPositionValue(call.my_position) = 0
       IN  /\ order_calc.reduced_by_balance <=> BeforeBalanceStep > affordable
           /\ order_calc.reduced_by_balance
                => order_calc.final_amount =
                      IF affordable < config.min_order_size_usd
                      THEN config.min_order_size_usd ELSE affordable
           /\ (~order_calc.reduced_by_balance /\ ~order_calc.below_minimum)
                => order_calc.final_amount = BeforeBalanceStep
           /\ (example /\ call.my_balance = 100000)
                => /\ order_calc.final_amount = 1000
                   /\ ~order_calc.capped_by_max
                   /\ ~order_calc.reduced_by_balance
                   /\ ~order_calc.below_minimum
           /\ (example /\ call.my_balance = 500)
                => /\ order_calc.final_amount = 495
                   /\ order_calc.reduced_by_balance

C20_Witness ==
    /\ pc = "sized"
    /\ cfg.copy_strategy_config = Strategy(100, 5000, None)
    /\ call.trade.usdc_size = 10000 /\ call.my_balance = 500
    /\ order_calc.final_amount = 495 /\ order_calc.reduced_by_balance

\* a loop iteration that found the relevant side of the book empty
EmptySideMet ==
    pc = "exec" /\ loop.stopped = "" /\ loop'.stopped \in {"no_bids", "no_asks"}

\* C21: when the relevant side of the fetched book is empty the loop stops
\* without an error and keeps its fills: a sell of 10 tokens that met 3 tokens
\* at the best bid and then an empty side has filled 3, leaves 7 and returns Ok.
C21_EmptySideStopsWithoutError ==
    /\ [][EmptySideMet =>
             /\ pc' = "return" /\ result' = "ok"
             /\ loop'.filled = loop.filled
             /\ loop'.remaining = loop.remaining
             /\ loop'.filled = loop'.target - loop'.remaining]_vars
    /\ []((loop.kind = "sell" /\ loop.target = 1000 /\ loop.orders = 1
           /\ IsSome(lastOrder) /\ lastOrder[1].tokens = 300)
             => (loop.filled = 300 /\ loop.remaining = 700))

C21_Witness ==
    /\ loop.kind = "sell" /\ loop.stopped = "no_bids"
    /\ loop.target = 1000 /\ loop.filled = 300 /\ loop.remaining = 700
    /\ cfg.retry_limit = 3
    /\ result = "ok"

\* a step taken while a trade event is being handled by the session
HandlingStep == caller = "session" /\ pc \in Handling

\* C22: a failure while one trade event is handled (a failed positions, balance
\* or order-book fetch) stays with that event: the session goes back to reading
\* frames, connect_rtds does not return and the reconnect counter is unchanged
\* (only a SIGINT ends the handling otherwise).
C22_FailureConfinedToEvent ==
    [][HandlingStep =>
          /\ pc' \in Handling \cup {"read", "exited"}
          /\ reconnect_attempts' = reconnect_attempts
          /\ monitorResult' = monitorResult
          /\ delay' = delay
          /\ (pc = "return" /\ pc' \notin {pc, "exited"}) => pc' = "read"]_vars

\* a failed order-book fetch is on its way back to a session that had to
\* reconnect once before
C22_Witness ==
    /\ caller = "session" /\ pc = "return" /\ result = "err"
    /\ loop.kind = "buy" /\ loop.stopped = "error"
    /\ reconnect_attempts = 1

\* C23: once the reconnect attempts are exhausted the fatal error ends the
\* process: the monitor's Err is followed by the exit of the process.
C23_FatalErrorEndsProcess ==
    (monitorResult = "err_max") ~> (pc = "exited")

\* C24: no run of the program hands an order to the exchange client: without
\* PREVIEW_MODE main exits before any service starts, and with it every fill
\* of the strategy loops is a simulation; the number of orders sent stays zero.
C24_NoOrderSent ==
    /\ sent = 0
    /\ ~cfg.preview_mode =>
          /\ pc \in {"main", "exited"}
          /\ refreshAlive = 0 /\ inHandling = 0 /\ activeLoops = 0
          /\ outcome = "none" /\ monitorResult = "running"
          /\ call = NoCall /\ lastOrder = None

\* the session's buy loop has just filled an order
C24_Witness ==
    /\ cfg.preview_mode /\ caller = "session"
    /\ pc = "exec" /\ loop.kind = "buy" /\ loop.orders >= 1 /\ IsSome(lastOrder)
    /\ sent = 0

\* what the call in progress shares with the state before it
OutsideTheCall ==
    <<cfg, prev_calc, snapshot, caller, fetch, monitorVars, refreshAlive, store, frameVars, inHandling,
      myHolding, userHolding, loop, lastOrder, result, activeLoops, sent,
      tiers_str, parsed>>

C27_RefreshIsUpsert ==
    IsSome(snapshot) => store = snapshot

\* a step that ends a stream session: connect_rtds returns to the reconnect loop
SessionOver ==
    /\ pc \in {"connect", "subscribe", "read"}
    /\ pc' \in {"connect", "sleep", "returned"}
    /\ pc' # pc

\* C26: every end of a stream session (connect failure, read error, close
\* frame, end of stream) increments the reconnect counter and is followed by a
\* wait of base delay x min(counter, cap); no connection attempt follows another
\* without such a wait.
C26_EverySessionEndWaits ==
    /\ [][SessionOver =>
             /\ reconnect_attempts' = reconnect_attempts + 1
             /\ \/ pc' = "returned"
                \/ /\ pc' = "sleep"
                   /\ delay' = RECONNECT_DELAY_SECS
                                 * Min(reconnect_attempts', DelayCap)]_vars
    /\ [][(pc' = "connect" /\ pc # "connect") => pc \in {"init", "sleep"}]_vars

\* C28: on any connection a trade-activity message is dispatched to trade
\* processing only after a subscription acknowledgment was received on it.
C28_DispatchOnlyAfterAck ==
    (pc \in Handling \cup {"read"} /\ Dispatched) => acked

\* x lies between a and b, whichever is the greater
Between(x, a, b) == Min(a, b) <= x /\ x <= Max(a, b)

\* an ADAPTIVE calculation has been made
AdaptiveSized == pc = "sized" /\ cfg.copy_strategy_config.strategy = "ADAPTIVE"

\* C29 as stated: under ADAPTIVE the effective percent is max_percent for a
\* tracked notional of 0, min_percent for every notional at or above the
\* threshold, and between min_percent and max_percent for every N >= 0.
C29_AdaptiveBetweenMinAndMax ==
    AdaptiveSized =>
       LET config == cfg.copy_strategy_config
           N == call.trade.usdc_size
           min_percent == UnwrapOr(config.adaptive_min_percent, config.copy_size)
           max_percent == UnwrapOr(config.adaptive_max_percent, config.copy_size)
           threshold == UnwrapOr(config.adaptive_threshold, 50000)
           percent == calculate_adaptive_percent(config, N)
       IN  /\ order_calc.base_amount = (N * percent) \div (100 * Scale)
           /\ N = 0 => percent = max_percent
           /\ N >= threshold => percent = min_percent
           /\ Between(percent, min_percent, max_percent)

\* C29, amended: under ADAPTIVE the effective percent runs through three
\* points: max_percent for a tracked notional of 0, copy_size at the threshold,
\* min_percent at twice the threshold and above; below the threshold it lies
\* between max_percent and copy_size, from the threshold on between copy_size
\* and min_percent.
C29_AdaptiveThroughCopySize ==
    AdaptiveSized =>
       LET config == cfg.copy_strategy_config
           N == call.trade.usdc_size
           min_percent == UnwrapOr(config.adaptive_min_percent, config.copy_size)
           max_percent == UnwrapOr(config.adaptive_max_percent, config.copy_size)
           threshold == UnwrapOr(config.adaptive_threshold, 50000)
           percent == calculate_adaptive_percent(config, N)
       IN  /\ order_calc.base_amount = (N * percent) \div (100 * Scale)
           /\ N = 0 => percent = max_percent
           /\ N = threshold => percent = config.copy_size
           /\ N >= 2 * threshold => percent = min_percent
           /\ N < threshold => Between(percent, config.copy_size, max_percent)
           /\ N >= threshold => Between(percent, min_percent, config.copy_size)

\* a tracked notional at the threshold, copied at copy_size and not at min_percent
C29_Witness ==
    /\ AdaptiveSized
    /\ call.trade.usdc_size = UnwrapOr(cfg.copy_strategy_config.adaptive_threshold, 50000)
    /\ cfg.copy_strategy_config.adaptive_min_percent = Some(500)
    /\ cfg.copy_strategy_config.copy_size = 1000
    /\ order_calc.base_amount = 5000

\* C30: every accepted tier list is sorted, non-overlapping and contiguous
\* (each tier's max is the next tier's min) with at most one unbounded tier,
\* the last; a written list that leaves a gap or is out of order is rejected.
C30_AcceptedTiersContiguous ==
    /\ (pc = "parsed" /\ parsed.kind = "ok") =>
          LET tiers == parsed.tiers
          IN  /\ \A i \in 1..(Len(tiers) - 1) :
                    /\ tiers[i].min <= tiers[i + 1].min
                    /\ tiers[i].max = Some(tiers[i + 1].min)
              /\ \A i \in 1..Len(tiers) : tiers[i].max = None => i = Len(tiers)
    /\ \A ws \in WrittenLists :
          (/\ ParsedFrom(ws)
           /\ \E i \in 1..(Len(ws) - 1) :
                 \/ ws[i].min > ws[i + 1].min
                 \/ ws[i].max # None /\ ws[i].max[1] < ws[i + 1].min)
          => parsed.kind = "err"

\* the amount calculate_order_size holds before its first clamp
BeforeClamps ==
    LET config == cfg.copy_strategy_config
        N == call.trade.usdc_size
    IN  FMul(BaseAmount(config, N), get_trade_multiplier(config, N))

\* C31: each clamp step of calculate_order_size has its own flag in the result,
\* set exactly when the step changed the amount (maximum, position cap,
\* balance, minimum), and the trail has one entry per applied step, in order.
C31_EachClampHasItsFlag ==
    pc = "sized" =>
       LET config == cfg.copy_strategy_config
           a0 == BeforeClamps
           a1 == AfterMaxCap(config, a0)
           a2 == BeforeBalanceStep
           a3 == AfterBalance(a2, call.my_balance)
           a4 == AfterMinimum(config, a3)
           trail == SelectSeq(order_calc.reasoning,
                       LAMBDA e : e \notin {config.strategy, "multiplier"})
       IN  /\ order_calc.capped_by_max <=> a1 # a0
           /\ "reduced_by_position" \in DOMAIN order_calc
           /\ order_calc.reduced_by_position <=> a2 # a1
           /\ order_calc.reduced_by_balance <=> a3 # a2
           /\ order_calc.below_minimum <=> a4 # a3
           /\ trail = (IF a1 # a0 THEN <<"capped_at_max">> ELSE <<>>)
                   \o (IF a2 # a1
                       THEN IF a2 = 0 THEN <<"position_limit_reached">>
                                      ELSE <<"reduced_to_fit_position_limit">>
                       ELSE <<>>)
                   \o (IF a3 # a2 THEN <<"reduced_to_fit_balance">> ELSE <<>>)
                   \o (IF a4 # a3 THEN <<"below_minimum">> ELSE <<>>)

\* the sizes quoted at the price of order o in the snapshot it was computed from
QuotedAt(o) ==
    {o.levels[i].size : i \in {j \in 1..Len(o.levels) :
                                 o.levels[j].ok /\ o.levels[j].price = o.price}}

\* C32: the fill of every loop iteration is min(remaining, size available at
\* the best price), in tokens for SELL and MERGE, in notional converted at the
\* best ask for BUY; no order is larger than the liquidity quoted at its price.
C32_FillWithinBestLevel ==
    (pc = "exec" /\ IsSome(lastOrder)) =>
       LET o == lastOrder[1]
       IN  /\ o.side = "SELL" =>
                 \E size \in QuotedAt(o) :
                    o.tokens = Min(loop.remaining + o.tokens, size)
           /\ o.side = "BUY" =>
                 \E size \in QuotedAt(o) :
                    /\ o.usd = Min(loop.remaining + o.usd, FMul(size, o.price))
                    /\ o.tokens <= size

\* the prices of the well-formed levels of the snapshot order o was computed from
QuotedPrices(o) ==
    {o.levels[i].price : i \in {j \in 1..Len(o.levels) : o.levels[j].ok}}

\* C33: every order of the loops is priced at the best contra quote of the
\* snapshot just fetched: the lowest well-formed ask for BUY, the highest
\* well-formed bid for SELL and MERGE.
C33_OrderAtBestQuote ==
    IsSome(lastOrder) =>
       LET o == lastOrder[1]
       IN  /\ o.price \in QuotedPrices(o)
           /\ o.side = "BUY" => \A q \in QuotedPrices(o) : o.price <= q
           /\ o.side = "SELL" => \A q \in QuotedPrices(o) : o.price >= q

\* a sell order priced at the highest of three bid levels
C33_Witness ==
    /\ IsSome(lastOrder) /\ lastOrder[1].side = "SELL"
    /\ Len(lastOrder[1].levels) = 3
    /\ lastOrder[1].price = 60 /\ 40 \in QuotedPrices(lastOrder[1])

\* an iteration of a loop that failed: its step could not be carried out
IterationFailed == pc = "exec" /\ loop'.stopped = "error"

NothingToSell ==
    /\ call.condition \in {"sell", "merge"}
    /\ \/ ~IsSome(call.my_position)
       \/ /\ call.condition = "merge"
          /\ call.my_position[1].size < MIN_ORDER_SIZE_TOKENS
       \/ /\ call.condition = "sell"
          /\ IsSome(SellTarget(cfg.copy_strategy_config, call))
          /\ SellTarget(cfg.copy_strategy_config, call)[1] < MIN_ORDER_SIZE_TOKENS

\* C35: a SELL or MERGE with no held position, or with a sell target below one
\* token, fetches no order book and makes no order, and returns success.
C35_NothingToSellNoOrder ==
    (call # NoCall /\ NothingToSell) =>
        /\ pc # "exec"
        /\ loop = NoLoop
        /\ lastOrder = None
        /\ result = "ok"

\* both cases met: a merge without a position, a sell whose target is below 1 token
C35_WitnessNoPosition ==
    /\ pc = "done" /\ call.condition = "merge" /\ ~IsSome(call.my_position)
    /\ result = "ok"

C35_Witness ==
    /\ pc = "done" /\ call.condition = "sell" /\ IsSome(call.my_position)
    /\ IsSome(call.user_position)
    /\ SellTarget(cfg.copy_strategy_config, call)[1] > 0
    /\ result = "ok" /\ loop = NoLoop
    /\ NothingToSell

\* the failed attempts the claim calls retryable: a response with a non-success
\* status, a timeout, a connect error, a request error
StatedRetryable == {"http_status", "timeout", "connect", "request"}

\* C36 as stated: a failed attempt that is not of a retryable kind (non-success
\* status, timeout, connect or request error) ends the call with an error and
\* without a further wait.
C36_OnlyListedFailuresRetried ==
    [][(fetch.state = "sending" /\ fetch'.last \notin StatedRetryable \cup {"json"})
          => (fetch'.state = "err" /\ fetch'.waits = fetch.waits)]_vars

\* the failed attempts fetch_data retries: those stated, and any other error of
\* send() whose text contains "network"
Retried == StatedRetryable \cup {"redirect_network_url"}

\* the k-th wait of a call is 1 s x 2^(k-1): one second, then twice the wait before
WaitsDouble ==
    \A k \in 1..Len(fetch.waits) :
        fetch.waits[k] = IF k = 1 THEN 1 ELSE 2 * fetch.waits[k - 1]

\* C36 (amended): at most network_retry_limit attempts are made; the k-th failed
\* attempt is followed by a wait of 1 s x 2^(k-1) when it is retried (non-success
\* status, timeout, connect or request error, or an error whose text contains
\* "network") and is not the last; after the last attempt, and after a failure
\* of another kind, the call returns an error with no further wait; for every
\* network_retry_limit in 1..10 the call ends with a value or an error.
C36_BoundedAttemptsWithBackoff ==
    /\ [](/\ fetch.attempt <= fetch.retries
          /\ fetch.state # "panic"
          /\ WaitsDouble
          /\ fetch.state = "sleeping" =>
                /\ Len(fetch.waits) = fetch.attempt
                /\ fetch.last \in Retried
                /\ fetch.attempt < fetch.retries
          /\ fetch.state \in {"sending", "ok", "err"} =>
                Len(fetch.waits) = Max(fetch.attempt - 1, 0)
          /\ fetch.state = "err" =>
                \/ fetch.last \in {"build", "not_json"}
                \/ fetch.last \notin Retried
                \/ fetch.attempt = fetch.retries)
    /\ [][(fetch.state = "sending" /\ fetch'.last \in Retried
             /\ fetch.attempt < fetch.retries) => fetch'.state = "sleeping"]_vars
    /\ <>(fetch.state \in {"ok", "err"})

\* ten attempts were made, nine waits taken, the last of 256 s, and the call
\* returned its error
C36_Witness ==
    /\ fetch.retries = 10 /\ fetch.attempt = 10 /\ fetch.state = "err"
    /\ Len(fetch.waits) = 9 /\ fetch.waits[9] = 256
    /\ fetch.last = "timeout"

\* C37: within one BUY execution the orders placed never add up to more than
\* the balance passed to the call: an order is placed only if it is at most the
\* balance still available, which is the balance passed less the orders placed,
\* also when the sizing raised the target to the minimum, above 99% of the balance.
C37_BuyWithinBalance ==
    loop.kind = "buy" =>
        /\ loop.filled <= call.my_balance
        /\ loop.available_balance = call.my_balance - loop.filled
        /\ loop.available_balance >= 0

\* the target was raised to the minimum, above 99% of the balance, and the one
\* order placed took the whole balance
C37_Witness ==
    /\ loop.kind = "buy" /\ order_calc.below_minimum
    /\ order_calc.final_amount > FMul(call.my_balance, SafetyBuffer)
    /\ IsSome(lastOrder)
    /\ loop.filled = call.my_balance /\ loop.available_balance = 0

\* C38: with 0 < min_order_size_usd <= max_order_size_usd the final_amount of
\* calculate_order_size is at most max_order_size_usd, for every notional,
\* balance and position and whatever strategy, multiplier or tier applies.
C38_FinalWithinMaximum ==
    LET config == cfg.copy_strategy_config
    IN  (/\ pc = "sized"
         /\ 0 < config.min_order_size_usd
         /\ config.min_order_size_usd <= config.max_order_size_usd)
            => order_calc.final_amount <= config.max_order_size_usd

\* a multiplied amount above the maximum, returned as the maximum
C38_Witness ==
    /\ pc = "sized"
    /\ BeforeClamps > cfg.copy_strategy_config.max_order_size_usd
    /\ get_trade_multiplier(cfg.copy_strategy_config, call.trade.usdc_size) > Scale
    /\ order_calc.capped_by_max
    /\ order_calc.final_amount = cfg.copy_strategy_config.max_order_size_usd

\* an amount raised to the minimum, which is within the maximum
C38_WitnessRaised ==
    /\ pc = "sized" /\ order_calc.below_minimum
    /\ order_calc.final_amount = cfg.copy_strategy_config.min_order_size_usd
    /\ order_calc.final_amount < cfg.copy_strategy_config.max_order_size_usd

\* C39: parse_tiered_multipliers ends with a value or an error for every text:
\* a non-blank text without any tier definition once it is split on commas and
\* the empty pieces are dropped gives an empty tier list or an error, and no
\* underflow, out-of-bounds access or panic.
C39_ParseNeverPanics ==
    pc = "parsed" =>
        /\ parsed.kind \in {"ok", "err"}
        /\ (tiers_str # <<>> /\ \A i \in 1..Len(tiers_str) : tiers_str[i] = Sym(","))
              => (parsed.kind = "err" \/ parsed.tiers = <<>>)

\* C40: with the legacy configuration (COPY_PERCENTAGE set, COPY_STRATEGY unset,
\* no tiers) the single trade multiplier is applied exactly once: for tracked
\* notional N the amount before the clamps is N x COPY_PERCENTAGE/100 x
\* TRADE_MULTIPLIER.
C40_LegacyMultiplierOnce ==
    \A e \in LegacyVars :
        (pc = "sized" /\ cfg.copy_strategy_config = parse_copy_strategy(e).config)
           => BeforeClamps = FMul(PercentOf(call.trade.usdc_size, e.COPY_PERCENTAGE[1]),
                                  UnwrapOr(e.TRADE_MULTIPLIER, Scale))

=============================================================================
